---- MODULE Spec2Model ----
(***************************************************************************)
(* Model of the g-code toolpath parser of nc_view_tui (crate cnc-gcode)    *)
(* and of the geometry types it uses (crate cnc-geom).                     *)
(*                                                                         *)
(* Numbers.  The program computes in f64.  The model computes in fixed     *)
(* point: a coordinate, length or radius v is the integer v * Scale, an    *)
(* angle a (radians) is the integer a * TrigScale, and a sine, cosine or   *)
(* unit-vector component c is the integer c * TrigScale.  Every operation  *)
(* rounds to the nearest representable value, as f64 does at its own       *)
(* (much finer) resolution.  Statements about computed arc points are      *)
(* therefore made up to Tol, the model's counterpart of the 1e-9 of the    *)
(* specification; statements about copied values are exact.                *)
(***************************************************************************)
EXTENDS Integers, Sequences, FiniteSets, TLC

\* ------------------------------------------------------------------------
\* Fixed-point arithmetic (f64)
\* ------------------------------------------------------------------------

\* units per 1.0 of a coordinate
Scale == 1000

\* units per radian, and per 1.0 of a sine or cosine
TrigScale == 10000

\* std::f64::consts::PI and TAU in TrigScale units
PI == 31416

TAU == 2 * PI

HalfPI == PI \div 2

Abs(a) == IF a < 0 THEN -a ELSE a

\* f64::min / f64::max
Min(a, b) == IF a <= b THEN a ELSE b

Max(a, b) == IF a >= b THEN a ELSE b

\* a / b rounded to the nearest integer, halves away from zero (b > 0)
RDiv(a, b) ==
    IF a >= 0 THEN (2 * a + b) \div (2 * b)
    ELSE -((2 * (-a) + b) \div (2 * b))

\* ceil(a / b) for a >= 0, b > 0
CeilDiv(a, b) == (a + b - 1) \div b

RECURSIVE SqrtSearch(_, _, _)
\* the largest r in lo..hi with r * r <= n
SqrtSearch(n, lo, hi) ==
    IF lo >= hi THEN lo
    ELSE LET mid == (lo + hi + 1) \div 2
         IN  IF mid * mid <= n THEN SqrtSearch(n, mid, hi)
             ELSE SqrtSearch(n, lo, mid - 1)

\* f64::sqrt: the integer nearest to the square root of n (n >= 0)
Sqrt(n) ==
    LET r == SqrtSearch(n, 0, 46340)
    IN  IF n - r * r > r THEN r + 1 ELSE r

\* sine of an angle a in 0..HalfPI \div 2 (Taylor series)
SinSmall(a) ==
    LET x2 == RDiv(a * a, TrigScale)
        t3 == RDiv(a * x2, 6 * TrigScale)
        t5 == RDiv(t3 * x2, 20 * TrigScale)
        t7 == RDiv(t5 * x2, 42 * TrigScale)
    IN  a - t3 + t5 - t7

\* cosine of an angle a in 0..HalfPI \div 2 (Taylor series)
CosSmall(a) ==
    LET x2 == RDiv(a * a, TrigScale)
        t2 == RDiv(x2, 2)
        t4 == RDiv(t2 * x2, 12 * TrigScale)
        t6 == RDiv(t4 * x2, 30 * TrigScale)
        t8 == RDiv(t6 * x2, 56 * TrigScale)
    IN  TrigScale - t2 + t4 - t6 + t8

\* sine and cosine of an angle a in 0..HalfPI
SinQ(a) == IF 2 * a <= HalfPI THEN SinSmall(a) ELSE CosSmall(HalfPI - a)

CosQ(a) == IF 2 * a <= HalfPI THEN CosSmall(a) ELSE SinSmall(HalfPI - a)

\* f64::sin
Sin(a) ==
    LET m == a % TAU
        q == m \div HalfPI
        r == m % HalfPI
    IN  CASE q = 0 -> SinQ(r)
          [] q = 1 -> CosQ(r)
          [] q = 2 -> -SinQ(r)
          [] OTHER -> -CosQ(r)

\* f64::cos
Cos(a) ==
    LET m == a % TAU
        q == m \div HalfPI
        r == m % HalfPI
    IN  CASE q = 0 -> CosQ(r)
          [] q = 1 -> -SinQ(r)
          [] q = 2 -> -CosQ(r)
          [] OTHER -> SinQ(r)

RECURSIVE AtanSearch(_, _, _, _)
\* the largest a in lo..hi with tan(a) <= ay / ax  (ax, ay > 0)
AtanSearch(ay, ax, lo, hi) ==
    IF lo >= hi THEN lo
    ELSE LET mid == (lo + hi + 1) \div 2
         IN  IF SinQ(mid) * ax <= CosQ(mid) * ay
             THEN AtanSearch(ay, ax, mid, hi)
             ELSE AtanSearch(ay, ax, lo, mid - 1)

\* f64::atan2, in (-PI, PI]
Atan2(y, x) ==
    LET ax == Abs(x)
        ay == Abs(y)
        b  == IF ay = 0 THEN 0
              ELSE IF ax = 0 THEN HalfPI
              ELSE IF ax = ay THEN HalfPI \div 2
              ELSE AtanSearch(ay, ax, 0, HalfPI)
    IN  IF x >= 0 THEN (IF y >= 0 THEN b ELSE -b)
        ELSE IF y >= 0 THEN PI - b ELSE b - PI

\* an f64 with the sign of its zero kept: the value and whether the sign bit
\* is set
f64(v) == [v |-> v, neg |-> v < 0]

\* -0.0, as "-0" parses and as a negative value rounds
NegZero == [v |-> 0, neg |-> TRUE]

\* f64 subtraction: a zero difference is +0.0 except for -0.0 - +0.0
f64_sub(a, b) ==
    IF a.v # b.v THEN f64(a.v - b.v)
    ELSE [v |-> 0, neg |-> a.v = 0 /\ a.neg /\ ~b.neg]

\* f64::atan2 with the sign of a zero y: on the negative x axis +0.0 gives
\* PI and -0.0 gives -PI
atan2_f64(y, x) ==
    IF y.v # 0 \/ x.v > 0 THEN Atan2(y.v, x.v)
    ELSE IF x.v < 0 \/ x.neg THEN (IF y.neg THEN -PI ELSE PI)
    ELSE 0

\* ------------------------------------------------------------------------
\* cnc-geom: Vec3 and Bounds3
\* ------------------------------------------------------------------------

Vec3(x, y, z) == [x |-> x, y |-> y, z |-> z]

Bounds3_new == [min |-> Vec3(0, 0, 0), max |-> Vec3(0, 0, 0), initialized |-> FALSE]

\* include, with min and max exchanged in the updates
include_swapped(b, p) ==
    IF ~b.initialized
    THEN [min |-> p, max |-> p, initialized |-> TRUE]
    ELSE [min |-> Vec3(Max(b.min.x, p.x), Max(b.min.y, p.y), Max(b.min.z, p.z)),
          max |-> Vec3(Min(b.max.x, p.x), Min(b.max.y, p.y), Min(b.max.z, p.z)),
          initialized |-> TRUE]

\* include, never lowering min once initialized
include_keeps_min(b, p) ==
    IF ~b.initialized
    THEN [min |-> p, max |-> p, initialized |-> TRUE]
    ELSE [min |-> b.min,
          max |-> Vec3(Max(b.max.x, p.x), Max(b.max.y, p.y), Max(b.max.z, p.z)),
          initialized |-> TRUE]

\* Bounds3::include
include(b, p) ==
    IF ~b.initialized
    THEN [min |-> p, max |-> p, initialized |-> TRUE]
    ELSE [min |-> Vec3(Min(b.min.x, p.x), Min(b.min.y, p.y), Min(b.min.z, p.z)),
          max |-> Vec3(Max(b.max.x, p.x), Max(b.max.y, p.y), Max(b.max.z, p.z)),
          initialized |-> TRUE]

\* ------------------------------------------------------------------------
\* cnc-gcode: lexer
\* ------------------------------------------------------------------------

UpperCase == "ABCDEFGHIJKLMNOPQRSTUVWXYZ"

LowerCase == "abcdefghijklmnopqrstuvwxyz"

Digits == "0123456789"

\* the character of s at position i, as a one-character string
CharAt(s, i) == SubSeq(s, i, i)

Chars(s) == {CharAt(s, i) : i \in 1..Len(s)}

\* the position of character c in s (c occurs in s)
IndexOf(c, s) == CHOOSE i \in 1..Len(s) : CharAt(s, i) = c

\* char::is_ascii_whitespace
is_ascii_whitespace(c) == c \in {" ", "\t", "\n", "\r", "\f"}

UpperSet == Chars(UpperCase)

LowerSet == Chars(LowerCase)

DigitSet == Chars(Digits)

\* char::is_ascii_alphabetic
is_ascii_alphabetic(c) == c \in UpperSet \/ c \in LowerSet

\* char::to_ascii_uppercase
to_ascii_uppercase(c) ==
    IF c \in LowerSet THEN CharAt(UpperCase, IndexOf(c, LowerCase)) ELSE c

is_digit(c) == c \in DigitSet

DigitVal(c) == IndexOf(c, Digits) - 1

\* Result<T>: Ok(v) or Err(e).  An error e carries its kind, the letter it
\* names (or "") and the line number its context states (0: no context).
Ok(v) == [ok |-> TRUE, val |-> v]

Err(e) == [ok |-> FALSE, err |-> e]

Error(kind, letter) == [kind |-> kind, letter |-> letter, context |-> 0]

\* anyhow::Context::with_context(|| format!("line {}", line_no))
with_context(res, line_no) ==
    IF res.ok THEN res ELSE Err([res.err EXCEPT !.context = line_no])

RECURSIVE strip_from(_, _, _)
RECURSIVE strip_char(_, _, _, _)
\* strip_char, a ';' ending the line inside parentheses too
strip_char_semicolon_first(line, n, in_paren, ch) ==
    IF ch = ";" THEN ""
    ELSE IF in_paren THEN strip_from(line, n + 1, ch # ")")
    ELSE IF ch = "(" THEN strip_from(line, n + 1, TRUE)
    ELSE ch \o strip_from(line, n + 1, FALSE)

\* strip_comments, the loop from position n on
strip_from(line, n, in_paren) ==
    IF n > Len(line) THEN "" ELSE strip_char(line, n, in_paren, CharAt(line, n))

\* strip_comments, one iteration of the loop
strip_char(line, n, in_paren, ch) ==
    IF in_paren THEN strip_from(line, n + 1, ch # ")")
    ELSE IF ch = "(" THEN strip_from(line, n + 1, TRUE)
    ELSE IF ch = ";" THEN ""
    ELSE ch \o strip_from(line, n + 1, FALSE)

strip_comments(line) == strip_from(line, 1, FALSE)

\* U+00A0 NO-BREAK SPACE: whitespace, but not ASCII whitespace
NBSP == " "

\* char::is_whitespace, as str::trim applies it: the ASCII whitespace and
\* the other White_Space characters, of which the lines here have U+00A0
is_whitespace(c) == is_ascii_whitespace(c) \/ c = NBSP

RECURSIVE trim_start(_)
trim_start(s) ==
    IF Len(s) > 0 /\ is_whitespace(CharAt(s, 1))
    THEN trim_start(SubSeq(s, 2, Len(s))) ELSE s

RECURSIVE trim_end(_)
trim_end(s) ==
    IF Len(s) > 0 /\ is_whitespace(CharAt(s, Len(s)))
    THEN trim_end(SubSeq(s, 1, Len(s) - 1)) ELSE s

\* str::trim
trim(s) == trim_end(trim_start(s))

RECURSIVE DigitsVal(_)
\* the integer written by a string of digits
DigitsVal(s) ==
    IF Len(s) = 0 THEN 0
    ELSE 10 * DigitsVal(SubSeq(s, 1, Len(s) - 1)) + DigitVal(CharAt(s, Len(s)))

AllDigits(s) == \A n \in 1..Len(s) : is_digit(CharAt(s, n))

\* the n-th fraction digit of f
FracDigit(f, n) == IF n <= Len(f) THEN DigitVal(CharAt(f, n)) ELSE 0

\* the value of the fraction digits f, in Scale units, rounded to nearest
FracVal(f) ==
    (Scale \div 10) * FracDigit(f, 1) + (Scale \div 100) * FracDigit(f, 2)
    + FracDigit(f, 3) + (IF FracDigit(f, 4) >= 5 THEN 1 ELSE 0)

\* the fraction digits f give a value that is not zero and is below 5e-7:
\* it rounds to 0 in Scale units without being 0.0
TinyFrac(f) ==
    /\ \A n \in 1..6 : FracDigit(f, n) = 0
    /\ FracDigit(f, 7) < 5
    /\ \E n \in 7..Len(f) : FracDigit(f, n) # 0

\* parse::<f64>, from the integer and fraction digits on: the value in Scale
\* units and whether it is tiny (not 0.0, of magnitude below 5e-7)
parse_parts(int, frac) ==
    IF AllDigits(int) /\ AllDigits(frac) /\ Len(int) + Len(frac) > 0
    THEN Ok([v |-> DigitsVal(int) * Scale + FracVal(frac),
             tiny |-> DigitsVal(int) = 0 /\ TinyFrac(frac)])
    ELSE Err(Error("InvalidFloat", ""))

\* parse::<f64>, from the positions of '.' on
parse_split(body, dots) ==
    IF dots = {} THEN parse_parts(body, "")
    ELSE IF Cardinality(dots) > 1 THEN Err(Error("InvalidFloat", ""))
    ELSE parse_parts(SubSeq(body, 1, (CHOOSE n \in dots : TRUE) - 1),
                     SubSeq(body, (CHOOSE n \in dots : TRUE) + 1, Len(body)))

\* parse::<f64> of a literal without sign
parse_unsigned(body) ==
    parse_split(body, {n \in 1..Len(body) : CharAt(body, n) = "."})

negate(res) == IF res.ok THEN Ok([res.val EXCEPT !.v = -@]) ELSE res

\* str::parse::<f64> on a string without letters: an optional sign, then
\* digits with at most one '.', at least one digit in all
parse_f64(s) ==
    IF Len(s) > 0 /\ CharAt(s, 1) = "-" THEN negate(parse_unsigned(SubSeq(s, 2, Len(s))))
    ELSE IF Len(s) > 0 /\ CharAt(s, 1) = "+" THEN parse_unsigned(SubSeq(s, 2, Len(s)))
    ELSE parse_unsigned(s)

\* is_known_letter, knowing the command and position letters only
is_known_letter_no_arc(letter) == letter \in {"G", "X", "Y", "Z"}

is_known_letter(letter) == letter \in {"G", "X", "Y", "Z", "I", "J", "K", "R"}

\* ParseOptions::should_ignore_missing
should_ignore_missing(options, letter) == letter \in options.ignore_missing_value

RECURSIVE num_end(_, _)
\* the first position from n on whose character ends a numeric run
num_end(line, n) ==
    IF n > Len(line) THEN n
    ELSE IF is_ascii_whitespace(CharAt(line, n)) \/ is_ascii_alphabetic(CharAt(line, n))
         THEN n
    ELSE num_end(line, n + 1)

\* Word: the letter and the value, the latter in Scale units with its
\* tiny flag
Word(letter, value) == [letter |-> letter, value |-> value.v, tiny |-> value.tiny]

RECURSIVE words_from(_, _, _, _)
RECURSIVE words_char(_, _, _, _, _)
RECURSIVE words_num(_, _, _, _, _, _)
RECURSIVE words_value(_, _, _, _, _, _)
\* parse_words, the loop from position n on
words_from(line, n, words, options) ==
    IF n > Len(line) THEN Ok(words)
    ELSE words_char(line, n, words, options, CharAt(line, n))

\* parse_words, one iteration of the loop
words_char(line, n, words, options, ch) ==
    IF is_ascii_whitespace(ch) THEN words_from(line, n + 1, words, options)
    ELSE IF is_ascii_alphabetic(ch)
    THEN words_num(line, words, options, to_ascii_uppercase(ch), num_end(line, n + 1),
                   trim(SubSeq(line, n + 1, num_end(line, n + 1) - 1)))
    ELSE words_from(line, n + 1, words, options)

\* parse_words, from the numeric run num after a letter on; e is the
\* position after the run
words_num(line, words, options, letter, e, num) ==
    IF num = ""
    THEN IF should_ignore_missing(options, letter)
            \/ (options.ignore_unknown_words /\ ~is_known_letter(letter))
         THEN words_from(line, e, words, options)
         ELSE Err(Error("MissingValue", letter))
    ELSE words_value(line, words, options, letter, e, parse_f64(num))

\* words_value, the missing-value tolerances covering a literal that does
\* not parse
words_value_tolerant(line, words, options, letter, e, value) ==
    IF value.ok
    THEN words_from(line, e, Append(words, Word(letter, value.val)), options)
    ELSE IF should_ignore_missing(options, letter)
            \/ (options.ignore_unknown_words /\ ~is_known_letter(letter))
    THEN words_from(line, e, words, options)
    ELSE value

\* parse_words, from the parsed value on
words_value(line, words, options, letter, e, value) ==
    IF value.ok
    THEN words_from(line, e, Append(words, Word(letter, value.val)), options)
    ELSE value

parse_words(line, options) == words_from(line, 1, <<>>, options)

\* ------------------------------------------------------------------------
\* the input: source lines and parse options
\* ------------------------------------------------------------------------

\* the source lines a file is made of
Lines ==
    {"", "(setup) ; home", "T1", "T1 E", "R0.5",
     "G91", "G90 G17", "G20", "G1", "g1 x0.5 y0.25", "G1 G0 Z0.25", "X-0.5",
     "Y-0.25 Z0.5",
     "G2 X0.5 Y0 I0.25 J0", "G3 X0.25 Y0.25 R0.25", "G2 X-0.25 Y0.25 R-0.25",
     "J0.5 X0", "G18 G3 X0.25 Z0.25 J0.5 K0.25",
     "G19 G2 Y0.25 Z-0.25 X0.5 R0.25 (helix)",
     "X", "X1.2.3", "G2 X0.5", "G3 X0.5 R0.1", "G2 X0.25 I0"}

\* the parse options a session is started with
OptionsSet ==
    {[ignore_missing_value |-> {}, ignore_unknown_words |-> FALSE],
     [ignore_missing_value |-> {"E"}, ignore_unknown_words |-> TRUE]}

\* source lines that exercise the lexer: letters with and without a value,
\* comments in parentheses and after a semicolon, whitespace between a
\* letter and its value, literals that are no numbers
LexLines ==
    {"", "T1", "T1 E", "T1 e", "M", "m G1 X0.5", "E X0.5 y0.25", "G1 X0.5 Y",
     "X", "G", "R", "I J0.5", "Z K", "x e", "G1 X0.5", "G91 e G1 z0.5 M",
     "G4 X0.5", "G18", "G1.4", "G91.1",
     "G1 X0.5 (G0 Y0.25) Z0.25", "G1 (a; b) X0.25 ; Y0.5", "X0.5 (open Y0.25",
     "; (G1 X0.5)", "(a (b) X0.5) Y0.25", "G1 X0.5 ) Y0.25", "G1 X(0.25)0.5",
     "X 0.5", "G1 X  0.5 Y0.25",
     "X1.2.3", "E.", "T- X0.5", "M1-2", "E" \o NBSP \o "X0.5",
     "X0.5" \o NBSP \o "Y0.25", "X" \o NBSP \o NBSP \o "G1"}

\* the parse options the lexer is exercised with
LexOptionsSet ==
    {[ignore_missing_value |-> {}, ignore_unknown_words |-> FALSE],
     [ignore_missing_value |-> {"E"}, ignore_unknown_words |-> FALSE],
     [ignore_missing_value |-> {}, ignore_unknown_words |-> TRUE],
     [ignore_missing_value |-> {"E"}, ignore_unknown_words |-> TRUE],
     [ignore_missing_value |-> {"E", "X"}, ignore_unknown_words |-> FALSE]}

\* lines of short files that exercise the moves: inverse relative moves,
\* changes of units between the words of a line, arcs with both offsets and
\* a radius, arcs whose chord is a diameter
MoveLines ==
    {"G91", "G91 G0 X0.25 Z0.5", "G1 X0.5 Y0.25 Z-0.25", "X-0.5 Y-0.25 Z0.25",
     "X-0.25 Z-0.5",
     "G20", "X0.25 G20 Y0.01", "G21 Y0.5 G20", "Z0.02",
     "G20 G2 X0.02 G21 I0.254 J0", "G3 G20 R0.01 G21 X0.25",
     "G2 X0.5 I0.25 R0.1", "G2 X0.5 K0.25 R0.5",
     "G18 G3 X0.25 Z0.25 J0.5 R0.25",
     "G2 X0.5 R0.25", "G3 X0.3 Y0.4 R-0.25", "G18 G2 X0.3 Y0.25 Z-0.4 R0.25"}

\* lines of short files, in millimetres, with arcs whose offsets are tiny:
\* not zero, below 5e-7
TinyLines ==
    {"G91", "G1 X0.5 Y0.25", "G2 X0.25 I0.25", "G2 X0.25 I0",
     "G2 X0.25 I0.0000004", "G3 X0.25 Y0.5 J-0.0000002 K0.5",
     "G19 G3 Y0.25 Z0.25 K0.0000003", "G18 G2 X0.25 J0.0000004",
     "G2 X0.5 I0.0000004 J0.25"}

\* what the lexer makes of each line: the line after strip_comments and
\* trim, and the result of parse_words on it (computed once per line and
\* set of options)
LexMemo ==
    {[line |-> l, options |-> o,
      cleaned |-> trim(strip_comments(l)),
      words |-> parse_words(trim(strip_comments(l)), o)] :
        l \in Lines \cup LexLines \cup MoveLines \cup TinyLines, o \in OptionsSet \cup LexOptionsSet}

\* parse_line's calls of strip_comments, trim and parse_words
lex(line, options) == CHOOSE m \in LexMemo : m.line = line /\ m.options = options

\* ------------------------------------------------------------------------
\* cnc-gcode: parser state
\* ------------------------------------------------------------------------

\* Option<f64>
None == [some |-> FALSE, v |-> 0]

Some(v) == [some |-> TRUE, v |-> v]

unwrap_or(o, d) == IF o.some THEN o.v ELSE d

LineSegment(start, end, kind) == [start |-> start, end |-> end, kind |-> kind]

\* units_scale of G21 (1.0) and of G20 (25.4)
MmScale == Scale

InchScale == 25 * Scale + (4 * Scale) \div 10

ParserState_new ==
    [pos |-> Vec3(0, 0, 0),
     units_scale |-> MmScale,
     distance_mode |-> "Absolute",
     plane |-> "XY",
     motion_mode |-> "Rapid"]

ToolpathStats_default ==
    [line_count |-> 0, segment_count |-> 0, rapid_moves |-> 0,
     feed_moves |-> 0, arc_moves |-> 0]

Parser_new(options) ==
    [state |-> ParserState_new,
     segments |-> <<>>,
     bounds |-> Bounds3_new,
     stats |-> ToolpathStats_default,
     options |-> options,
     line_segment_ends |-> <<>>]

\* ------------------------------------------------------------------------
\* cnc-gcode: arc solver and rasterizer
\* ------------------------------------------------------------------------

\* 0.5
ARC_SEGMENT_LENGTH == Scale \div 2

\* the coordinates of p in the plane, as <<first, second>>
plane_coords(p, plane) ==
    CASE plane = "XY" -> <<p.x, p.y>>
      [] plane = "XZ" -> <<p.x, p.z>>
      [] plane = "YZ" -> <<p.y, p.z>>

\* the point p with its two in-plane coordinates replaced by a and b
with_plane_coords(p, plane, a, b) ==
    CASE plane = "XY" -> [p EXCEPT !.x = a, !.y = b]
      [] plane = "XZ" -> [p EXCEPT !.x = a, !.z = b]
      [] plane = "YZ" -> [p EXCEPT !.y = a, !.z = b]

\* apply_axis, taking the value as absolute in both distance modes
apply_axis_absolute(axis, input, current, mode) ==
    IF input.some THEN input.v ELSE axis

apply_axis(axis, input, current, mode) ==
    IF input.some
    THEN (IF mode = "Absolute" THEN input.v ELSE current + input.v)
    ELSE axis

sweep_for_center(sx, sy, ex, ey, cx, cy, clockwise) ==
    LET start_angle == Atan2(sy - cy, sx - cx)
        end_angle   == Atan2(ey - cy, ex - cx)
        sweep       == end_angle - start_angle
    IN  IF clockwise
        THEN (IF sweep >= 0 THEN sweep - TAU ELSE sweep)
        ELSE (IF sweep <= 0 THEN sweep + TAU ELSE sweep)

\* select_center, with the sense of large inverted
select_center_inverted(sweep1, sweep2, large) ==
    LET s1 == Abs(sweep1)
        s2 == Abs(sweep2)
    IN  IF ~large
        THEN IF s1 > PI /\ s2 <= PI THEN TRUE
             ELSE IF s2 > PI /\ s1 <= PI THEN FALSE
             ELSE s1 >= s2
        ELSE IF s1 <= PI /\ s2 > PI THEN TRUE
             ELSE IF s2 <= PI /\ s1 > PI THEN FALSE
             ELSE s1 <= s2

\* select_center, a large-arc request picking the first candidate only when
\* its sweep is strictly the larger
select_center_strict(sweep1, sweep2, large) ==
    LET s1 == Abs(sweep1)
        s2 == Abs(sweep2)
    IN  IF large
        THEN IF s1 > PI /\ s2 <= PI THEN TRUE
             ELSE IF s2 > PI /\ s1 <= PI THEN FALSE
             ELSE s1 > s2
        ELSE IF s1 <= PI /\ s2 > PI THEN TRUE
             ELSE IF s2 <= PI /\ s1 > PI THEN FALSE
             ELSE s1 <= s2

\* TRUE: pick the first candidate
select_center(sweep1, sweep2, large) ==
    LET s1 == Abs(sweep1)
        s2 == Abs(sweep2)
    IN  IF large
        THEN IF s1 > PI /\ s2 <= PI THEN TRUE
             ELSE IF s2 > PI /\ s1 <= PI THEN FALSE
             ELSE s1 >= s2
        ELSE IF s1 <= PI /\ s2 > PI THEN TRUE
             ELSE IF s2 <= PI /\ s1 > PI THEN FALSE
             ELSE s1 <= s2

\* arc_center_from_offsets, accepting a center equal to the start point
arc_center_from_offsets_unchecked(start, i, j, k, plane) ==
    Ok(CASE plane = "XY" -> [start EXCEPT !.x = start.x + unwrap_or(i, 0),
                                          !.y = start.y + unwrap_or(j, 0)]
         [] plane = "XZ" -> [start EXCEPT !.x = start.x + unwrap_or(i, 0),
                                          !.z = start.z + unwrap_or(k, 0)]
         [] plane = "YZ" -> [start EXCEPT !.y = start.y + unwrap_or(j, 0),
                                          !.z = start.z + unwrap_or(k, 0)])

\* arc_center_from_offsets, the XZ plane taking J for its second axis
arc_center_from_offsets_xz_j(start, i, j, k, plane) ==
    LET center ==
          CASE plane = "XY" -> [start EXCEPT !.x = start.x + unwrap_or(i, 0),
                                             !.y = start.y + unwrap_or(j, 0)]
            [] plane = "XZ" -> [start EXCEPT !.x = start.x + unwrap_or(i, 0),
                                             !.z = start.z + unwrap_or(j, 0)]
            [] plane = "YZ" -> [start EXCEPT !.y = start.y + unwrap_or(j, 0),
                                             !.z = start.z + unwrap_or(k, 0)]
    IN  IF center = start THEN Err(Error("ArcCenterMissing", "")) ELSE Ok(center)

arc_center_from_offsets(start, i, j, k, plane) ==
    LET center ==
          CASE plane = "XY" -> [start EXCEPT !.x = start.x + unwrap_or(i, 0),
                                             !.y = start.y + unwrap_or(j, 0)]
            [] plane = "XZ" -> [start EXCEPT !.x = start.x + unwrap_or(i, 0),
                                             !.z = start.z + unwrap_or(k, 0)]
            [] plane = "YZ" -> [start EXCEPT !.y = start.y + unwrap_or(j, 0),
                                             !.z = start.z + unwrap_or(k, 0)]
        tiny(o) == o.some /\ o.tiny
        \* a tiny offset in the plane moves the center off the start by less
        \* than the model's resolution
        moved == CASE plane = "XY" -> tiny(i) \/ tiny(j)
                   [] plane = "XZ" -> tiny(i) \/ tiny(k)
                   [] plane = "YZ" -> tiny(j) \/ tiny(k)
    IN  IF center = start /\ ~moved THEN Err(Error("ArcCenterMissing", ""))
        ELSE Ok(center)

\* arc_center_from_radius, from the choice between the candidates on
radius_select(start, plane, c1x, c1y, c2x, c2y, pick_first) ==
    LET cx == IF pick_first THEN c1x ELSE c2x
        cy == IF pick_first THEN c1y ELSE c2y
    IN  Ok(with_plane_coords(start, plane, cx, cy))

\* arc_center_from_radius, from the two candidate centers on
radius_candidates(start, plane, sx, sy, ex, ey, chord, h, large, clockwise) ==
    LET dx == ex - sx
        dy == ey - sy
        mid_x == RDiv(sx + ex, 2)
        mid_y == RDiv(sy + ey, 2)
        perp_x == RDiv((-dy) * TrigScale, chord)
        perp_y == RDiv(dx * TrigScale, chord)
        c1x == mid_x + RDiv(perp_x * h, TrigScale)
        c1y == mid_y + RDiv(perp_y * h, TrigScale)
        c2x == mid_x - RDiv(perp_x * h, TrigScale)
        c2y == mid_y - RDiv(perp_y * h, TrigScale)
    IN  radius_select(start, plane, c1x, c1y, c2x, c2y,
            select_center(sweep_for_center(sx, sy, ex, ey, c1x, c1y, clockwise),
                          sweep_for_center(sx, sy, ex, ey, c2x, c2y, clockwise),
                          large))

\* radius_chord, comparing the chord with |R| instead of 2|R|
radius_chord_against_radius(start, plane, sx, sy, ex, ey, chord, radius, clockwise) ==
    LET r_abs == Abs(radius)
        half  == RDiv(chord, 2)
        h_sq  == r_abs * r_abs - half * half
    IN  IF chord = 0 THEN Err(Error("ArcDegenerate", ""))
        ELSE IF chord > r_abs THEN Err(Error("ArcRadiusTooSmall", ""))
        ELSE radius_candidates(start, plane, sx, sy, ex, ey, chord,
                               IF h_sq <= 0 THEN 0 ELSE Sqrt(h_sq),
                               radius < 0, clockwise)

\* arc_center_from_radius, from the checks of the chord on
radius_chord(start, plane, sx, sy, ex, ey, chord, radius, clockwise) ==
    LET r_abs == Abs(radius)
        half  == RDiv(chord, 2)
        h_sq  == r_abs * r_abs - half * half
    IN  \* chord.abs() < 1e-9: below the model's resolution, so chord = 0
        IF chord = 0 THEN Err(Error("ArcDegenerate", ""))
        \* chord > 2.0 * r_abs + 1e-9
        ELSE IF chord > 2 * r_abs THEN Err(Error("ArcRadiusTooSmall", ""))
        ELSE radius_candidates(start, plane, sx, sy, ex, ey, chord,
                               IF h_sq <= 0 THEN 0 ELSE Sqrt(h_sq),
                               radius < 0, clockwise)

arc_center_from_radius(start, end, radius, plane, clockwise) ==
    LET s == plane_coords(start, plane)
        e == plane_coords(end, plane)
        dx == e[1] - s[1]
        dy == e[2] - s[2]
    IN  radius_chord(start, plane, s[1], s[2], e[1], e[2],
                     Sqrt(dx * dx + dy * dy), radius, clockwise)

\* arc_center, the radius form taking precedence over the offsets
arc_center_radius_first(start, end, i, j, k, r, plane, clockwise) ==
    IF r.some
    THEN arc_center_from_radius(start, end, r.v, plane, clockwise)
    ELSE IF i.some \/ j.some \/ k.some
    THEN arc_center_from_offsets(start, i, j, k, plane)
    ELSE Err(Error("ArcCenterMissing", ""))

\* arc_center: offsets when any of I, J, K is given, else the radius
arc_center(start, end, i, j, k, r, plane, clockwise) ==
    IF i.some \/ j.some \/ k.some
    THEN arc_center_from_offsets(start, i, j, k, plane)
    ELSE IF r.some
    THEN arc_center_from_radius(start, end, r.v, plane, clockwise)
    ELSE Err(Error("ArcCenterMissing", ""))

\* the point of step number step of the arc
arc_point(arc, step) ==
    LET angle == arc.start_angle + RDiv(arc.sweep * step, arc.steps)
        px == arc.cx + RDiv(arc.radius * Cos(angle), TrigScale)
        py == arc.cy + RDiv(arc.radius * Sin(angle), TrigScale)
        start == arc.start
        end == arc.end
    IN  CASE arc.plane = "XY" ->
               Vec3(px, py, start.z + RDiv((end.z - start.z) * step, arc.steps))
          [] arc.plane = "XZ" ->
               Vec3(px, start.y + RDiv((end.y - start.y) * step, arc.steps), py)
          [] arc.plane = "YZ" ->
               Vec3(start.x + RDiv((end.x - start.x) * step, arc.steps), px, py)

RECURSIVE arc_points(_, _, _)
\* the points of the steps number lo to hi, in order (computed by halves to
\* keep the evaluation shallow)
arc_points(arc, lo, hi) ==
    IF lo > hi THEN <<>>
    ELSE IF lo = hi THEN <<arc_point(arc, lo)>>
    ELSE arc_points(arc, lo, (lo + hi) \div 2)
         \o arc_points(arc, (lo + hi) \div 2 + 1, hi)

\* the segments chaining the points: each starts at the previous point
\* (prev), the first at start
arc_chain(start, points) ==
    [n \in 1..Len(points) |->
        LineSegment(IF n = 1 THEN start ELSE points[n - 1], points[n], "Feed")]

\* arc_to_segments, the loop over the steps
arc_loop(arc) == arc_chain(arc.start, arc_points(arc, 1, arc.steps))

\* arc_to_segments, from the step count on
arc_steps(start, end, cx, cy, radius, start_angle, sweep, plane, steps) ==
    arc_loop([start |-> start, end |-> end, cx |-> cx, cy |-> cy,
              radius |-> radius, start_angle |-> start_angle, sweep |-> sweep,
              plane |-> plane, steps |-> steps])

\* sweep_for_center over f64 values with signed zeros
sweep_for_center_f64(sx, sy, ex, ey, cx, cy, clockwise) ==
    LET start_angle == atan2_f64(f64_sub(sy, cy), f64_sub(sx, cx))
        end_angle   == atan2_f64(f64_sub(ey, cy), f64_sub(ex, cx))
        sweep       == end_angle - start_angle
    IN  IF clockwise
        THEN (IF sweep >= 0 THEN sweep - TAU ELSE sweep)
        ELSE (IF sweep <= 0 THEN sweep + TAU ELSE sweep)

\* arc_to_segments, its angles and sweep, over f64 values with signed zeros
arc_to_segments_sweep(sx, sy, ex, ey, cx, cy, clockwise) ==
    LET start_angle == atan2_f64(f64_sub(sy, cy), f64_sub(sx, cx))
        end_angle   == atan2_f64(f64_sub(ey, cy), f64_sub(ex, cx))
        diff        == end_angle - start_angle
    IN  IF clockwise
        THEN (IF diff >= 0 THEN diff - TAU ELSE diff)
        ELSE (IF diff <= 0 THEN diff + TAU ELSE diff)

\* arc_sweep, the step count rounded down
arc_sweep_floor(start, end, cx, cy, radius, start_angle, end_angle, clockwise, plane) ==
    LET diff == end_angle - start_angle
        sweep == IF clockwise
                 THEN (IF diff >= 0 THEN diff - TAU ELSE diff)
                 ELSE (IF diff <= 0 THEN diff + TAU ELSE diff)
        arc_length == RDiv(radius * Abs(sweep), TrigScale)
    IN  arc_steps(start, end, cx, cy, radius, start_angle, sweep, plane,
                  Max(arc_length \div ARC_SEGMENT_LENGTH, 1))

\* arc_to_segments, from the two angles on
arc_sweep(start, end, cx, cy, radius, start_angle, end_angle, clockwise, plane) ==
    LET diff == end_angle - start_angle
        sweep == IF clockwise
                 THEN (IF diff >= 0 THEN diff - TAU ELSE diff)
                 ELSE (IF diff <= 0 THEN diff + TAU ELSE diff)
        arc_length == RDiv(radius * Abs(sweep), TrigScale)
    IN  arc_steps(start, end, cx, cy, radius, start_angle, sweep, plane,
                  Max(CeilDiv(arc_length, ARC_SEGMENT_LENGTH), 1))

\* arc_to_segments, from the radius on
arc_radius(start, end, sx, sy, ex, ey, cx, cy, radius, clockwise, plane) ==
    \* radius.abs() < 1e-6: below the model's resolution, so radius = 0
    IF radius = 0 THEN <<>>
    ELSE arc_sweep(start, end, cx, cy, radius,
                   Atan2(sy - cy, sx - cx), Atan2(ey - cy, ex - cx),
                   clockwise, plane)

arc_to_segments(start, end, center, clockwise, plane) ==
    LET s == plane_coords(start, plane)
        e == plane_coords(end, plane)
        c == plane_coords(center, plane)
    IN  arc_radius(start, end, s[1], s[2], e[1], e[2], c[1], c[2],
                   Sqrt((s[1] - c[1]) * (s[1] - c[1]) + (s[2] - c[2]) * (s[2] - c[2])),
                   clockwise, plane)

\* ------------------------------------------------------------------------
\* cnc-gcode: Parser
\* ------------------------------------------------------------------------

\* one iteration of the loop of add_arc_move
include_segment(p, seg) ==
    [p EXCEPT !.segments = Append(@, seg),
              !.bounds = include(include(@, seg.start), seg.end)]

\* the element of a one-element set
TheOne(S) == CHOOSE v \in S : TRUE

RECURSIVE include_range(_, _, _, _)
\* the loop of add_arc_move over the segments number lo to hi, in order: the
\* first half, then the second half from the parser the first half left
\* (by halves to keep the evaluation shallow)
include_range(p, segs, lo, hi) ==
    IF lo > hi THEN p
    ELSE IF lo = hi THEN include_segment(p, segs[lo])
    ELSE TheOne({include_range(q, segs, (lo + hi) \div 2 + 1, hi) :
                   q \in {include_range(p, segs, lo, (lo + hi) \div 2)}})

\* the loop of add_arc_move over the segments
include_all(p, segs) == include_range(p, segs, 1, Len(segs))

\* the end point both kinds of move compute from the axis words
move_end(p, x, y, z) ==
    LET start == p.state.pos
    IN  Vec3(apply_axis(start.x, x, start.x, p.state.distance_mode),
             apply_axis(start.y, y, start.y, p.state.distance_mode),
             apply_axis(start.z, z, start.z, p.state.distance_mode))

\* linear_move_to, emitting a segment even when the end is the start
linear_move_to_always(p, start, end, kind) ==
    [p EXCEPT
        !.segments = Append(@, LineSegment(start, end, kind)),
        !.bounds = include(include(@, start), end),
        !.state.pos = end,
        !.stats.rapid_moves = IF kind = "Rapid" THEN @ + 1 ELSE @,
        !.stats.feed_moves = IF kind = "Feed" THEN @ + 1 ELSE @]

\* linear_move_to, leaving the position where it was
linear_move_to_pos_kept(p, start, end, kind) ==
    IF end = start THEN p
    ELSE [p EXCEPT
            !.segments = Append(@, LineSegment(start, end, kind)),
            !.bounds = include(include(@, start), end),
            !.stats.rapid_moves = IF kind = "Rapid" THEN @ + 1 ELSE @,
            !.stats.feed_moves = IF kind = "Feed" THEN @ + 1 ELSE @]

\* linear_move_to, counting the move before the end is compared with the
\* start
linear_move_to_counted_first(p, start, end, kind) ==
    LET counted == [p EXCEPT
            !.stats.rapid_moves = IF kind = "Rapid" THEN @ + 1 ELSE @,
            !.stats.feed_moves = IF kind = "Feed" THEN @ + 1 ELSE @]
    IN  IF end = start THEN counted
        ELSE [counted EXCEPT
                !.segments = Append(@, LineSegment(start, end, kind)),
                !.bounds = include(include(@, start), end),
                !.state.pos = end]

\* Parser::add_linear_move, from the computed end on
linear_move_to(p, start, end, kind) ==
    IF end = start THEN p
    ELSE [p EXCEPT
            !.segments = Append(@, LineSegment(start, end, kind)),
            !.bounds = include(include(@, start), end),
            !.state.pos = end,
            !.stats.rapid_moves = IF kind = "Rapid" THEN @ + 1 ELSE @,
            !.stats.feed_moves = IF kind = "Feed" THEN @ + 1 ELSE @]

\* Parser::add_linear_move: the parser after the call
add_linear_move(p, x, y, z, kind) ==
    linear_move_to(p, p.state.pos, move_end(p, x, y, z), kind)

\* arc_move_segments, counting one feed move per segment
arc_move_segments_per_segment(p, end, center, segs) ==
    IF segs = <<>>
    THEN [parser |-> p, res |-> Ok(TRUE), center |-> Some(center)]
    ELSE [parser |-> [include_all(p, segs) EXCEPT
                        !.state.pos = end,
                        !.stats.arc_moves = @ + 1,
                        !.stats.feed_moves = @ + Len(segs)],
          res |-> Ok(TRUE),
          center |-> Some(center)]

\* arc_move_segments, advancing the position when there are no segments
arc_move_segments_moving(p, end, center, segs) ==
    IF segs = <<>>
    THEN [parser |-> [p EXCEPT !.state.pos = end], res |-> Ok(TRUE),
          center |-> Some(center)]
    ELSE [parser |-> [include_all(p, segs) EXCEPT
                        !.state.pos = end,
                        !.stats.arc_moves = @ + 1,
                        !.stats.feed_moves = @ + 1],
          res |-> Ok(TRUE),
          center |-> Some(center)]

\* Parser::add_arc_move, from the rasterized segments on
arc_move_segments(p, end, center, segs) ==
    IF segs = <<>>
    THEN [parser |-> p, res |-> Ok(TRUE), center |-> Some(center)]
    ELSE [parser |-> [include_all(p, segs) EXCEPT
                        !.state.pos = end,
                        !.stats.arc_moves = @ + 1,
                        !.stats.feed_moves = @ + 1],
          res |-> Ok(TRUE),
          center |-> Some(center)]

\* Parser::add_arc_move, from the solved center on
\* arc_move_center, the position taking the end before the solver's result
\* is looked at
arc_move_center_pos_first(p, start, end, center, clockwise) ==
    IF ~center.ok
    THEN [parser |-> [p EXCEPT !.state.pos = end], res |-> center,
          center |-> None]
    ELSE arc_move_segments(p, end, center.val,
             arc_to_segments(start, end, center.val, clockwise, p.state.plane))

arc_move_center(p, start, end, center, clockwise) ==
    IF ~center.ok THEN [parser |-> p, res |-> center, center |-> None]
    ELSE arc_move_segments(p, end, center.val,
             arc_to_segments(start, end, center.val, clockwise, p.state.plane))

\* arc_move_to, calling the solver even when the end is the start
arc_move_to_unchecked(p, start, end, i, j, k, r, clockwise) ==
    arc_move_center(p, start, end,
        arc_center(start, end, i, j, k, r, p.state.plane, clockwise),
        clockwise)

\* Parser::add_arc_move, from the computed end on
arc_move_to(p, start, end, i, j, k, r, clockwise) ==
    IF end = start THEN [parser |-> p, res |-> Ok(TRUE), center |-> None]
    ELSE arc_move_center(p, start, end,
             arc_center(start, end, i, j, k, r, p.state.plane, clockwise),
             clockwise)

\* Parser::add_arc_move: the parser after the call, the result, and the
\* center the solver returned (None when it was not called or failed)
add_arc_move(p, x, y, z, i, j, k, r, clockwise) ==
    arc_move_to(p, p.state.pos, move_end(p, x, y, z), i, j, k, r, clockwise)

\* the locals of parse_line before its loop over the words
Locals(state) ==
    [state |-> state, motion_override |-> "None",
     x |-> None, y |-> None, z |-> None,
     i |-> None, j |-> None, k |-> None, r |-> None]

\* apply_word, a G20 or G21 also rescaling the axis words already read
apply_word_rescaling(a, word) ==
    LET scaled == Some(RDiv(word.value * a.state.units_scale, Scale))
        \* an offset keeps the flag of a tiny value: not 0.0 although 0 here
        offset == [some |-> TRUE, v |-> scaled.v, tiny |-> word.tiny]
        code   == RDiv(word.value, Scale)
        rescaled(o, to) ==
            IF o.some THEN Some(RDiv(o.v * to, a.state.units_scale)) ELSE o
        units(to) == [a EXCEPT !.state.units_scale = to,
                               !.x = rescaled(a.x, to),
                               !.y = rescaled(a.y, to),
                               !.z = rescaled(a.z, to)]
    IN  CASE word.letter = "G" ->
               (CASE code = 0 -> [a EXCEPT !.motion_override = "Rapid",
                                           !.state.motion_mode = "Rapid"]
                  [] code = 1 -> [a EXCEPT !.motion_override = "Feed",
                                           !.state.motion_mode = "Feed"]
                  [] code = 2 -> [a EXCEPT !.motion_override = "ArcCW",
                                           !.state.motion_mode = "ArcCW"]
                  [] code = 3 -> [a EXCEPT !.motion_override = "ArcCCW",
                                           !.state.motion_mode = "ArcCCW"]
                  [] code = 17 -> [a EXCEPT !.state.plane = "XY"]
                  [] code = 18 -> [a EXCEPT !.state.plane = "XZ"]
                  [] code = 19 -> [a EXCEPT !.state.plane = "YZ"]
                  [] code = 20 -> units(InchScale)
                  [] code = 21 -> units(MmScale)
                  [] code = 90 -> [a EXCEPT !.state.distance_mode = "Absolute"]
                  [] code = 91 -> [a EXCEPT !.state.distance_mode = "Relative"]
                  [] OTHER -> a)
          [] word.letter = "X" -> [a EXCEPT !.x = scaled]
          [] word.letter = "Y" -> [a EXCEPT !.y = scaled]
          [] word.letter = "Z" -> [a EXCEPT !.z = scaled]
          [] word.letter = "I" -> [a EXCEPT !.i = offset]
          [] word.letter = "J" -> [a EXCEPT !.j = offset]
          [] word.letter = "K" -> [a EXCEPT !.k = offset]
          [] word.letter = "R" -> [a EXCEPT !.r = scaled]
          [] OTHER -> a

\* one iteration of the loop over the words
apply_word(a, word) ==
    LET scaled == Some(RDiv(word.value * a.state.units_scale, Scale))
        \* an offset keeps the flag of a tiny value: not 0.0 although 0 here
        offset == [some |-> TRUE, v |-> scaled.v, tiny |-> word.tiny]
        code   == RDiv(word.value, Scale)
    IN  CASE word.letter = "G" ->
               (CASE code = 0 -> [a EXCEPT !.motion_override = "Rapid",
                                           !.state.motion_mode = "Rapid"]
                  [] code = 1 -> [a EXCEPT !.motion_override = "Feed",
                                           !.state.motion_mode = "Feed"]
                  [] code = 2 -> [a EXCEPT !.motion_override = "ArcCW",
                                           !.state.motion_mode = "ArcCW"]
                  [] code = 3 -> [a EXCEPT !.motion_override = "ArcCCW",
                                           !.state.motion_mode = "ArcCCW"]
                  [] code = 17 -> [a EXCEPT !.state.plane = "XY"]
                  [] code = 18 -> [a EXCEPT !.state.plane = "XZ"]
                  [] code = 19 -> [a EXCEPT !.state.plane = "YZ"]
                  [] code = 20 -> [a EXCEPT !.state.units_scale = InchScale]
                  [] code = 21 -> [a EXCEPT !.state.units_scale = MmScale]
                  [] code = 90 -> [a EXCEPT !.state.distance_mode = "Absolute"]
                  [] code = 91 -> [a EXCEPT !.state.distance_mode = "Relative"]
                  [] OTHER -> a)
          [] word.letter = "X" -> [a EXCEPT !.x = scaled]
          [] word.letter = "Y" -> [a EXCEPT !.y = scaled]
          [] word.letter = "Z" -> [a EXCEPT !.z = scaled]
          [] word.letter = "I" -> [a EXCEPT !.i = offset]
          [] word.letter = "J" -> [a EXCEPT !.j = offset]
          [] word.letter = "K" -> [a EXCEPT !.k = offset]
          [] word.letter = "R" -> [a EXCEPT !.r = scaled]
          [] OTHER -> a

RECURSIVE apply_words(_, _, _)
\* the loop over the words from position n on
apply_words(a, words, n) ==
    IF n > Len(words) THEN a ELSE apply_words(apply_word(a, words[n]), words, n + 1)

\* select_motion, counting R among the words that call for a motion
select_motion_with_r(a) ==
    IF a.motion_override # "None" THEN a.motion_override
    ELSE IF a.x.some \/ a.y.some \/ a.z.some \/ a.i.some \/ a.j.some \/ a.k.some
            \/ a.r.some
    THEN a.state.motion_mode
    ELSE "None"

\* the motion parse_line selects once the words are applied
select_motion(a) ==
    IF a.motion_override # "None" THEN a.motion_override
    ELSE IF a.x.some \/ a.y.some \/ a.z.some \/ a.i.some \/ a.j.some \/ a.k.some
    THEN a.state.motion_mode
    ELSE "None"

\* the line-end bookkeeping of parse_line
push_line_end(p) == [p EXCEPT !.line_segment_ends = Append(@, Len(p.segments))]

\* parse_line, after an arc move returned
after_arc(arc, motion) ==
    IF ~arc.res.ok
    THEN [parser |-> arc.parser, res |-> arc.res,
          motion |-> motion, center |-> arc.center]
    ELSE [parser |-> push_line_end(arc.parser), res |-> Ok(TRUE),
          motion |-> motion, center |-> arc.center]

\* parse_line, the dispatch on the selected motion
dispatch(p, a, motion) ==
    IF motion = "None"
    THEN [parser |-> push_line_end(p), res |-> Ok(TRUE),
          motion |-> motion, center |-> None]
    ELSE IF motion \in {"Rapid", "Feed"}
    THEN [parser |-> push_line_end(add_linear_move(p, a.x, a.y, a.z, motion)),
          res |-> Ok(TRUE), motion |-> motion, center |-> None]
    ELSE after_arc(add_arc_move(p, a.x, a.y, a.z, a.i, a.j, a.k, a.r,
                                motion = "ArcCW"),
                   motion)

\* after_words, the G words acting on a copy of the modal state that is
\* dropped at the end of the line
after_words_state_dropped(p, a) ==
    [dispatch([p EXCEPT !.state = a.state], a, select_motion(a))
        EXCEPT !.parser.state.motion_mode = p.state.motion_mode,
               !.parser.state.plane = p.state.plane,
               !.parser.state.units_scale = p.state.units_scale,
               !.parser.state.distance_mode = p.state.distance_mode]

\* parse_line, once the words are applied to the locals and the modal state
after_words(p, a) == dispatch([p EXCEPT !.state = a.state], a, select_motion(a))

\* after_lexer, returning early on an empty word list without recording the
\* line's end
after_lexer_no_push(p, words) ==
    IF ~words.ok
    THEN [parser |-> p, res |-> words, motion |-> "None", center |-> None]
    ELSE IF words.val = <<>>
    THEN [parser |-> p, res |-> Ok(TRUE), motion |-> "None", center |-> None]
    ELSE after_words(p, apply_words(Locals(p.state), words.val, 1))

\* parse_line, from the result of the lexer on
after_lexer(p, words) ==
    IF ~words.ok
    THEN [parser |-> p, res |-> words, motion |-> "None", center |-> None]
    ELSE IF words.val = <<>>
    THEN [parser |-> push_line_end(p), res |-> Ok(TRUE),
          motion |-> "None", center |-> None]
    ELSE after_words(p, apply_words(Locals(p.state), words.val, 1))

\* parse_cleaned, returning early on an empty line without recording its end
parse_cleaned_no_push(p, lexed, line_no) ==
    IF lexed.cleaned = ""
    THEN [parser |-> p, res |-> Ok(TRUE), motion |-> "None", center |-> None]
    ELSE after_lexer(p, with_context(lexed.words, line_no))

\* parse_line, from the comment-stripped and trimmed line on
parse_cleaned(p, lexed, line_no) ==
    IF lexed.cleaned = ""
    THEN [parser |-> push_line_end(p), res |-> Ok(TRUE),
          motion |-> "None", center |-> None]
    ELSE after_lexer(p, with_context(lexed.words, line_no))

\* Parser::parse_line: the parser after the call, the result, and the values
\* of the locals motion and center
parse_line(p, line, line_no) ==
    parse_cleaned([p EXCEPT !.stats.line_count = @ + 1],
                  lex(line, p.options), line_no)

\* Parser::finish
finish(p) ==
    LET done == [p EXCEPT !.stats.segment_count = Len(p.segments)]
    IN  Ok([segments |-> done.segments, bounds |-> done.bounds,
            stats |-> done.stats, line_segment_ends |-> done.line_segment_ends])

\* ------------------------------------------------------------------------
\* parse_file_with_options: the parse of one file, line by line
\* ------------------------------------------------------------------------

\* the longest file read
MaxLines == 3

VARIABLES
    parser,     \* the Parser of the session
    idx,        \* the number of lines the loop has taken from the reader
    status,     \* "parsing" (in the loop), "failed" or "done" (returned)
    result,     \* what parse_file_with_options returned (Pending: nothing yet)
    last_line,  \* the line last passed to parse_line
    before,     \* the Parser as it was when that call began
    last_motion, \* parse_line's local motion in that call
    last_center, \* add_arc_move's local center in that call
    sweep_in,   \* the arguments of a sweep computation on its own
    sweep_out,  \* the sweeps the solver and the rasterizer computed for them
    linear_feeds, \* the number of Feed segments add_linear_move has emitted
    app,        \* the App of the viewer (Pending: not constructed)
    running,    \* run_loop has not left its loop
    last_op     \* the call last made on the App, with what it was given

vars == <<parser, idx, status, result, last_line, before, last_motion, last_center,
          sweep_in, sweep_out, linear_feeds, app, running, last_op>>

\* the variables of the viewer
tui_vars == <<app, running, last_op>>

Pending == [pending |-> TRUE]

Init ==
    /\ \E options \in OptionsSet : parser = Parser_new(options) /\ before = parser
    /\ idx = 0
    /\ status = "parsing"
    /\ result = Pending
    /\ last_line = ""
    /\ last_motion = "None"
    /\ last_center = None
    /\ sweep_in = Pending
    /\ sweep_out = Pending
    /\ linear_feeds = 0
    /\ app = Pending
    /\ running = TRUE
    /\ last_op = Pending

\* ParseLine, the loop going on to the next line after an error
ParseLine_skip_error(l) ==
    /\ status = "parsing"
    /\ idx < MaxLines
    /\ \E out \in {parse_line(parser, l, idx + 1)} :
           /\ parser' = out.parser
           /\ last_motion' = out.motion
           /\ last_center' = out.center
           /\ linear_feeds' = linear_feeds
                  + IF out.motion = "Feed"
                    THEN Len(out.parser.segments) - Len(parser.segments)
                    ELSE 0
    /\ status' = "parsing"
    /\ result' = result
    /\ idx' = idx + 1
    /\ last_line' = l
    /\ before' = parser
    /\ UNCHANGED <<sweep_in, sweep_out>>
    /\ UNCHANGED tui_vars

\* one iteration of the loop: the reader yields a line and parse_line runs
ParseLine(l) ==
    /\ status = "parsing"
    /\ idx < MaxLines
    /\ \E out \in {parse_line(parser, l, idx + 1)} :
           /\ parser' = out.parser
           /\ last_motion' = out.motion
           /\ last_center' = out.center
           /\ linear_feeds' = linear_feeds
                  + IF out.motion = "Feed"
                    THEN Len(out.parser.segments) - Len(parser.segments)
                    ELSE 0
           /\ IF out.res.ok
              THEN status' = "parsing" /\ result' = result
              ELSE status' = "failed" /\ result' = out.res
    /\ idx' = idx + 1
    /\ last_line' = l
    /\ before' = parser
    /\ UNCHANGED <<sweep_in, sweep_out>>
    /\ UNCHANGED tui_vars

\* one iteration of the loop: the reader fails to yield the line
ReadError ==
    /\ status = "parsing"
    /\ idx < MaxLines
    /\ status' = "failed"
    /\ result' = Err([kind |-> "Io", letter |-> "", context |-> idx + 1])
    /\ idx' = idx + 1
    /\ UNCHANGED <<parser, last_line, before, last_motion, last_center,
                   sweep_in, sweep_out, linear_feeds>>
    /\ UNCHANGED tui_vars

\* the reader is exhausted: parser.finish()
Finish ==
    /\ status = "parsing"
    /\ status' = "done"
    /\ result' = finish(parser)
    /\ parser' = [parser EXCEPT !.stats.segment_count = Len(parser.segments)]
    /\ UNCHANGED <<idx, last_line, before, last_motion, last_center,
                   sweep_in, sweep_out, linear_feeds>>
    /\ UNCHANGED tui_vars

Next ==
    \/ \E l \in Lines : ParseLine(l)
    \/ ReadError
    \/ Finish

Spec == Init /\ [][Next]_vars

\* ------------------------------------------------------------------------
\* The sweep computations on their own, over in-plane coordinates that
\* include both zeros
\* ------------------------------------------------------------------------

\* the in-plane coordinates of start, end and center
SweepCoords == {NegZero, f64(0), f64(-500), f64(500)}

\* the calls with a center away from the start
SweepCalls ==
    {c \in [sx : SweepCoords, sy : SweepCoords, ex : SweepCoords,
            ey : SweepCoords, cx : SweepCoords, cy : SweepCoords,
            clockwise : BOOLEAN] :
        c.sx.v # c.cx.v \/ c.sy.v # c.cy.v}

SweepInit ==
    /\ parser = Parser_new(CHOOSE options \in OptionsSet : options.ignore_missing_value = {})
    /\ before = parser
    /\ idx = 0
    /\ status = "parsing"
    /\ result = Pending
    /\ last_line = ""
    /\ last_motion = "None"
    /\ last_center = None
    /\ linear_feeds = 0
    /\ app = Pending
    /\ running = TRUE
    /\ last_op = Pending
    /\ sweep_in \in SweepCalls
    /\ sweep_out = [solver |-> None, rasterizer |-> None]

\* the solver computes the sweep of a candidate center
SolverSweep ==
    /\ ~sweep_out.solver.some
    /\ sweep_out' =
         [sweep_out EXCEPT !.solver =
             Some(sweep_for_center_f64(sweep_in.sx, sweep_in.sy, sweep_in.ex,
                                       sweep_in.ey, sweep_in.cx, sweep_in.cy,
                                       sweep_in.clockwise))]
    /\ UNCHANGED <<parser, idx, status, result, last_line, before, last_motion,
                   last_center, sweep_in, linear_feeds>>
    /\ UNCHANGED tui_vars

\* the rasterizer computes the sweep of the center it is given
RasterizerSweep ==
    /\ ~sweep_out.rasterizer.some
    /\ sweep_out' =
         [sweep_out EXCEPT !.rasterizer =
             Some(arc_to_segments_sweep(sweep_in.sx, sweep_in.sy, sweep_in.ex,
                                        sweep_in.ey, sweep_in.cx, sweep_in.cy,
                                        sweep_in.clockwise))]
    /\ UNCHANGED <<parser, idx, status, result, last_line, before, last_motion,
                   last_center, sweep_in, linear_feeds>>
    /\ UNCHANGED tui_vars

SweepNext == SolverSweep \/ RasterizerSweep

SweepSpec == SweepInit /\ [][SweepNext]_vars

\* ------------------------------------------------------------------------
\* The same parse over short files of lexer-exercising lines, under every
\* combination of the parse options
\* ------------------------------------------------------------------------

\* the longest such file
MaxLexLines == 2

LexInit ==
    /\ \E options \in LexOptionsSet :
           parser = Parser_new(options) /\ before = parser
    /\ idx = 0
    /\ status = "parsing"
    /\ result = Pending
    /\ last_line = ""
    /\ last_motion = "None"
    /\ last_center = None
    /\ sweep_in = Pending
    /\ sweep_out = Pending
    /\ linear_feeds = 0
    /\ app = Pending
    /\ running = TRUE
    /\ last_op = Pending

LexNext ==
    \/ \E l \in LexLines : idx < MaxLexLines /\ ParseLine(l)
    \/ idx < MaxLexLines /\ ReadError
    \/ Finish

LexSpec == LexInit /\ [][LexNext]_vars

\* ------------------------------------------------------------------------
\* The same parse over short files of move-exercising lines, under the
\* default options
\* ------------------------------------------------------------------------

\* the longest such file
MaxMoveLines == 3

MoveNext ==
    \/ \E l \in MoveLines : idx < MaxMoveLines /\ ParseLine(l)
    \/ idx < MaxMoveLines /\ ReadError
    \/ Finish

MoveSpec == Init /\ [][MoveNext]_vars

\* ------------------------------------------------------------------------
\* The same parse over short files of lines with tiny arc offsets
\* ------------------------------------------------------------------------

\* the longest such file
MaxTinyLines == 3

TinyNext ==
    \/ \E l \in TinyLines : idx < MaxTinyLines /\ ParseLine(l)
    \/ idx < MaxTinyLines /\ ReadError
    \/ Finish

TinySpec == Init /\ [][TinyNext]_vars

\* ------------------------------------------------------------------------
\* cnc-tui: the playback, the file panel and the App of the viewer
\* ------------------------------------------------------------------------

\* The position and the speed of the playback are f64 values that may be
\* NaN; the numbers among them are kept in thousandths.
Num(v) == [nan |-> FALSE, v |-> v]

NaN == [nan |-> TRUE, v |-> 0]

\* a + b
f64_plus(a, b) == IF a.nan \/ b.nan THEN NaN ELSE Num(a.v + b.v)

\* a >= b: false when either is NaN
f64_ge(a, b) == ~a.nan /\ ~b.nan /\ a.v >= b.v

\* a <= b: false when either is NaN
f64_le(a, b) == ~a.nan /\ ~b.nan /\ a.v <= b.v

\* n as f64
usize_f64(n) == Num(n * Scale)

\* a.floor() as usize: the cast takes NaN and the negative numbers to 0
floor_usize(a) == IF a.nan \/ a.v < 0 THEN 0 ELSE a.v \div Scale

\* delta.as_secs_f64() * speed, for a delta in milliseconds
secs_times(delta, speed) ==
    IF speed.nan THEN NaN ELSE Num(RDiv(delta * speed.v, 1000))

\* AnimationSettings::try_from: the configured speed, refused when <= 0.0
AnimationSettings_try_from(speed_segments_per_sec) ==
    IF f64_le(speed_segments_per_sec, Num(0))
    THEN Err([kind |-> "Config", letter |-> "", context |-> 0])
    ELSE Ok(speed_segments_per_sec)

\* PlaybackState::new
PlaybackState_new(speed) ==
    [active |-> FALSE, playing |-> FALSE, position |-> Num(0), speed |-> speed]

\* the position back at 0.0 when it has reached the total
rewound(pb, total) ==
    IF f64_ge(pb.position, usize_f64(total))
    THEN [pb EXCEPT !.position = Num(0)] ELSE pb

\* PlaybackState::toggle
PlaybackState_toggle(pb, total) ==
    IF ~pb.active
    THEN [rewound(pb, total) EXCEPT !.active = TRUE, !.playing = TRUE]
    ELSE IF pb.playing THEN [pb EXCEPT !.playing = FALSE]
    ELSE [rewound(pb, total) EXCEPT !.playing = TRUE]

\* PlaybackState::tick
PlaybackState_tick(pb, delta, total) ==
    IF ~pb.playing THEN pb
    ELSE LET moved == [pb EXCEPT
                          !.position = f64_plus(@, secs_times(delta, pb.speed))]
         IN  IF f64_ge(moved.position, usize_f64(total))
             THEN [moved EXCEPT !.position = usize_f64(total),
                                !.playing = FALSE, !.active = FALSE]
             ELSE moved

\* PlaybackState::visible_segments
PlaybackState_visible_segments(pb, total) ==
    IF ~pb.active THEN total ELSE Min(floor_usize(pb.position), total)

\* FilePanelState::new
FilePanelState_new(total_lines) ==
    [focus |-> "Viewport", selected |-> Max(total_lines - 1, 0), scroll |-> 0,
     view_height |-> 0, visual |-> total_lines > 0, anchor |-> 0]

\* FilePanelState::toggle_focus
toggle_focus(fp) ==
    [fp EXCEPT !.focus = IF @ = "Viewport" THEN "File" ELSE "Viewport"]

\* FilePanelState::toggle_visual
toggle_visual(fp) ==
    IF fp.visual THEN [fp EXCEPT !.visual = FALSE]
    ELSE [fp EXCEPT !.visual = TRUE, !.anchor = fp.selected]

\* ensure_visible, scrolling down to put the selected line at the top
ensure_visible_top(fp) ==
    IF fp.view_height = 0 THEN fp
    ELSE IF fp.selected < fp.scroll THEN [fp EXCEPT !.scroll = fp.selected]
    ELSE IF fp.selected >= fp.scroll + fp.view_height
    THEN [fp EXCEPT !.scroll = fp.selected + 1]
    ELSE fp

\* FilePanelState::ensure_visible
ensure_visible(fp) ==
    IF fp.view_height = 0 THEN fp
    ELSE IF fp.selected < fp.scroll THEN [fp EXCEPT !.scroll = fp.selected]
    ELSE IF fp.selected >= fp.scroll + fp.view_height
    THEN [fp EXCEPT !.scroll = fp.selected + 1 - fp.view_height]
    ELSE fp

\* isize::clamp
clamp(v, lo, hi) == IF v < lo THEN lo ELSE IF v > hi THEN hi ELSE v

\* FilePanelState::move_selection
move_selection(fp, delta, total) ==
    IF total = 0 THEN [fp EXCEPT !.selected = 0, !.scroll = 0]
    ELSE ensure_visible(
             [fp EXCEPT !.selected = clamp(fp.selected + delta, 0, total - 1)])

\* FilePanelState::page_selection
page_selection(fp, direction, total) ==
    move_selection(fp, direction * Max(fp.view_height, 1), total)

\* FilePanelState::selection_range
selection_range(fp, total) ==
    IF total = 0 THEN <<0, 0>>
    ELSE IF fp.visual
    THEN <<Min(fp.anchor, fp.selected), Max(fp.anchor, fp.selected)>>
    ELSE <<fp.selected, fp.selected>>

\* f64::to_radians, of whole degrees
to_radians(deg) == RDiv(deg * PI, 180)

\* Option<ViewMetrics>::None
NoMetrics == [some |-> FALSE, v |-> [half_w |-> 0, half_h |-> 0]]

\* App::new: the toolpath is kept by the number of its segments and its
\* line_segment_ends, the file by the number of its lines
App_new(config, toolpath, file_lines) ==
    LET view == [pan |-> [x |-> 0, y |-> 0], zoom |-> Scale,
                 yaw |-> to_radians(config.projection.yaw_deg),
                 pitch |-> to_radians(config.projection.pitch_deg),
                 projection |-> config.projection.mode]
    IN  [config |-> config, toolpath |-> toolpath, file_lines |-> file_lines,
         view |-> view, initial_view |-> view, last_metrics |-> NoMetrics,
         file_panel |-> FilePanelState_new(file_lines),
         playback |-> PlaybackState_new(config.animation.speed_segments_per_sec),
         show_help |-> FALSE]

\* App::pan_step
pan_step(a) ==
    IF a.last_metrics.some
    THEN [x |-> Max(RDiv(a.last_metrics.v.half_w, 10), Scale \div 10),
          y |-> Max(RDiv(a.last_metrics.v.half_h, 10), Scale \div 10)]
    ELSE [x |-> Scale, y |-> Scale]

\* App::apply_view_pan
apply_view_pan(a, dx, dy) ==
    [a EXCEPT !.view.pan.x = @ + pan_step(a).x * dx,
              !.view.pan.y = @ + pan_step(a).y * dy]

\* the file panel after an operation that acts only when the panel has the
\* focus
when_file_focus(a, fp) ==
    IF a.file_panel.focus = "File" THEN [a EXCEPT !.file_panel = fp] ELSE a

\* the actions App::apply_action has an arm for
Actions ==
    {"PanLeft", "PanRight", "PanUp", "PanDown", "ZoomIn", "ZoomOut",
     "RotateLeft", "RotateRight", "RotateUp", "RotateDown", "Fit",
     "ResetView", "ToggleProjection", "TogglePlayback", "ToggleHelp",
     "ToggleVisual", "ToggleFocus", "LineUp", "LineDown", "PageUp",
     "PageDown", "Quit"}

\* App::apply_action with the help overlay hidden
apply_action_hidden(a, action) ==
    CASE action = "PanLeft" -> apply_view_pan(a, -1, 0)
      [] action = "PanRight" -> apply_view_pan(a, 1, 0)
      [] action = "PanUp" -> apply_view_pan(a, 0, 1)
      [] action = "PanDown" -> apply_view_pan(a, 0, -1)
      [] action = "ZoomIn" -> [a EXCEPT !.view.zoom = RDiv(@ * 11, 10)]
      [] action = "ZoomOut" ->
            [a EXCEPT !.view.zoom = Max(RDiv(@ * 10, 11), Scale \div 20)]
      [] action = "RotateLeft" -> [a EXCEPT !.view.yaw = @ - to_radians(5)]
      [] action = "RotateRight" -> [a EXCEPT !.view.yaw = @ + to_radians(5)]
      [] action = "RotateUp" -> [a EXCEPT !.view.pitch = @ + to_radians(5)]
      [] action = "RotateDown" -> [a EXCEPT !.view.pitch = @ - to_radians(5)]
      [] action = "Fit" ->
            [a EXCEPT !.view.pan = [x |-> 0, y |-> 0], !.view.zoom = Scale]
      [] action = "ResetView" -> [a EXCEPT !.view = a.initial_view]
      [] action = "ToggleProjection" ->
            [a EXCEPT !.view.projection =
                IF @ = "Orthographic" THEN "Perspective" ELSE "Orthographic"]
      [] action = "TogglePlayback" ->
            [a EXCEPT !.playback =
                PlaybackState_toggle(@, a.toolpath.segments)]
      [] action = "ToggleHelp" -> [a EXCEPT !.show_help = ~@]
      [] action = "ToggleVisual" ->
            when_file_focus(a, toggle_visual(a.file_panel))
      [] action = "ToggleFocus" ->
            [a EXCEPT !.file_panel = toggle_focus(@)]
      [] action = "LineUp" ->
            when_file_focus(a, move_selection(a.file_panel, -1, a.file_lines))
      [] action = "LineDown" ->
            when_file_focus(a, move_selection(a.file_panel, 1, a.file_lines))
      [] action = "PageUp" ->
            when_file_focus(a, page_selection(a.file_panel, -1, a.file_lines))
      [] action = "PageDown" ->
            when_file_focus(a, page_selection(a.file_panel, 1, a.file_lines))
      [] action = "Quit" -> a

\* apply_action, the overlay closing on ToggleHelp or Quit and the action
\* then acting as it does with the overlay hidden
apply_action_through(a, action) ==
    IF a.show_help /\ action \in {"ToggleHelp", "Quit"}
    THEN [a EXCEPT !.show_help = FALSE]
    ELSE apply_action_hidden([a EXCEPT !.show_help = FALSE], action)

\* App::apply_action
apply_action(a, action) ==
    IF a.show_help
    THEN IF action \in {"ToggleHelp", "Quit"}
         THEN [a EXCEPT !.show_help = FALSE] ELSE a
    ELSE apply_action_hidden(a, action)

\* App::tick
App_tick(a, delta) ==
    [a EXCEPT !.playback = PlaybackState_tick(@, delta, a.toolpath.segments)]

\* visible_segment_range, the range starting at the end of the first selected
\* line
visible_segment_range_from_end(a) ==
    LET total == a.toolpath.segments
        ends == a.toolpath.line_segment_ends
        lines == selection_range(a.file_panel, a.file_lines)
        max_line == Max(Len(ends) - 1, 0)
        start_line == Min(lines[1], max_line)
        end_line == Min(lines[2], max_line)
        start_idx == ends[start_line + 1]
        end_idx == Max(Min(ends[end_line + 1], total), start_idx)
        range_len == end_idx - start_idx
        visible_len == IF a.playback.active
                       THEN PlaybackState_visible_segments(a.playback, range_len)
                       ELSE range_len
    IN  IF total = 0 THEN <<0, 0>>
        ELSE IF ends = <<>> THEN <<0, total>>
        ELSE <<start_idx, start_idx + visible_len>>

\* App::visible_segment_range
visible_segment_range(a) ==
    LET total == a.toolpath.segments
        ends == a.toolpath.line_segment_ends
        lines == selection_range(a.file_panel, a.file_lines)
        max_line == Max(Len(ends) - 1, 0)
        start_line == Min(lines[1], max_line)
        end_line == Min(lines[2], max_line)
        start_idx == IF start_line = 0 THEN 0 ELSE ends[start_line]
        end_idx == Max(Min(ends[end_line + 1], total), start_idx)
        range_len == end_idx - start_idx
        visible_len == IF a.playback.active
                       THEN PlaybackState_visible_segments(a.playback, range_len)
                       ELSE range_len
    IN  IF total = 0 THEN <<0, 0>>
        ELSE IF ends = <<>> THEN <<0, total>>
        ELSE <<start_idx, start_idx + visible_len>>

\* App::visible_segment_count
visible_segment_count(a) ==
    IF a.toolpath.segments = 0 THEN 0
    ELSE Max(visible_segment_range(a)[2] - visible_segment_range(a)[1], 0)

\* render::draw, as far as it writes to the App: the metrics of the view,
\* which compute_view_metrics derives from the terminal, are given; the
\* file panel is as high as the frame less the status line and its borders
draw(a, height, metrics) ==
    [a EXCEPT !.last_metrics = Some(metrics),
              !.file_panel =
                  ensure_visible([@ EXCEPT !.view_height = Max(height - 3, 0)])]

\* ------------------------------------------------------------------------
\* The viewer: an App built from a configuration and a parsed file, then
\* driven through its methods
\* ------------------------------------------------------------------------

\* the speeds a configuration file may give: negative, zero, 62.5 segments
\* per second, NaN
ConfigSpeeds == {Num(-1000), Num(0), Num(62500), NaN}

\* Config::try_from, as far as the App reads the result: the configurations
\* whose animation speed AnimationSettings::try_from accepts, with the
\* default projection
Configs ==
    {[animation |-> [speed_segments_per_sec |-> AnimationSettings_try_from(s).val],
      projection |-> [mode |-> "Perspective", yaw_deg |-> -45, pitch_deg |-> 70]] :
        s \in {c \in ConfigSpeeds : AnimationSettings_try_from(c).ok}}

\* the toolpaths parse_file_with_options returned to main: the number of
\* segments and line_segment_ends, one entry per line of the file
Toolpaths ==
    {[segments |-> 0, line_segment_ends |-> <<>>],
     [segments |-> 2, line_segment_ends |-> <<0, 2>>],
     [segments |-> 3, line_segment_ends |-> <<1, 1, 3>>]}

\* the times between two ticks, in milliseconds
Deltas == {0, 16, 24}

\* the heights of the terminal
Heights == {3, 5}

\* the half extents compute_view_metrics returns
Metrics == {[half_w |-> 500, half_h |-> 2000]}

\* the variables of the parse
parse_vars == <<parser, idx, status, result, last_line, before, last_motion,
                last_center, sweep_in, sweep_out, linear_feeds>>

\* a record of a call on the App
Op(op, action, help) == [op |-> op, action |-> action, help |-> help]

\* main, from the loaded configuration and the parsed file to the App
AppInitOf(configs, toolpaths) ==
    /\ parser = Parser_new(CHOOSE options \in OptionsSet : options.ignore_missing_value = {})
    /\ before = parser
    /\ idx = 0
    /\ status = "parsing"
    /\ result = Pending
    /\ last_line = ""
    /\ last_motion = "None"
    /\ last_center = None
    /\ sweep_in = Pending
    /\ sweep_out = Pending
    /\ linear_feeds = 0
    /\ \E config \in configs, toolpath \in toolpaths :
           app = App_new(config, toolpath, Len(toolpath.line_segment_ends))
    /\ running = TRUE
    /\ last_op = Op("new", "", FALSE)

\* the most fields of a view that are followed away from the initial view
MaxViewOff == 1

\* the views followed: each field within one step of the initial view, and
\* at most MaxViewOff of them away from it
ViewNear(v, initial, step) ==
    /\ Abs(v.pan.x) <= step.x
    /\ Abs(v.pan.y) <= step.y
    /\ Abs(v.zoom - initial.zoom) <= Scale \div 10
    /\ Abs(v.yaw - initial.yaw) <= to_radians(5)
    /\ Abs(v.pitch - initial.pitch) <= to_radians(5)
    /\ Cardinality({f \in {"pan", "zoom", "yaw", "pitch", "projection"} :
                       v[f] # initial[f]}) <= MaxViewOff

\* app.apply_action(action)
ApplyAction(action) ==
    /\ \E out \in {apply_action(app, action)} :
           /\ ViewNear(out.view, out.initial_view, pan_step(app))
           /\ app' = out
    /\ last_op' = Op("apply_action", action, app.show_help)
    /\ UNCHANGED running
    /\ UNCHANGED parse_vars

\* app.tick(delta)
Tick(delta) ==
    /\ app' = App_tick(app, delta)
    /\ last_op' = Op("tick", "", app.show_help)
    /\ UNCHANGED running
    /\ UNCHANGED parse_vars

\* render::draw(frame, app)
Draw(height, metrics) ==
    /\ app' = draw(app, height, metrics)
    /\ last_op' = Op("draw", "", app.show_help)
    /\ UNCHANGED running
    /\ UNCHANGED parse_vars

\* the actions that write to the playback, the file panel or the overlay
RangeActions ==
    {"TogglePlayback", "ToggleHelp", "ToggleVisual", "ToggleFocus", "LineUp",
     "LineDown", "PageUp", "PageDown", "Quit"}

\* the App under the actions that do not write to the view, over every
\* configuration and toolpath
RangeInit == AppInitOf(Configs, Toolpaths)

RangeNext ==
    \/ \E action \in RangeActions : ApplyAction(action)
    \/ \E delta \in Deltas : Tick(delta)
    \/ \E height \in Heights, metrics \in Metrics : Draw(height, metrics)

RangeSpec == RangeInit /\ [][RangeNext]_vars

\* the App under every action, over a file of two lines
AppInit ==
    AppInitOf({c \in Configs : ~c.animation.speed_segments_per_sec.nan},
              {t \in Toolpaths : t.segments = 2})

AppNext ==
    \/ \E action \in Actions : ApplyAction(action)
    \/ \E delta \in {d \in Deltas : \A e \in Deltas : e <= d} : Tick(delta)
    \/ \E height \in {h \in Heights : \A g \in Heights : g <= h},
          metrics \in Metrics :
           Draw(height, metrics)

AppSpec == AppInit /\ [][AppNext]_vars

\* ------------------------------------------------------------------------
\* The PlaybackState of an App under its own methods
\* ------------------------------------------------------------------------

\* playback.toggle(total), with the number of segments for the total
Toggle ==
    /\ app' = [app EXCEPT
                 !.playback = PlaybackState_toggle(@, app.toolpath.segments)]
    /\ last_op' = Op("toggle", "", app.show_help)
    /\ UNCHANGED running
    /\ UNCHANGED parse_vars

\* the toolpaths whose totals the playback runs to: also those of two longer
\* files of one line
PlaybackToolpaths ==
    Toolpaths \cup {[segments |-> 4, line_segment_ends |-> <<4>>],
                    [segments |-> 5, line_segment_ends |-> <<5>>]}

PlaybackInit == AppInitOf(Configs, PlaybackToolpaths)

PlaybackNext ==
    \/ Toggle
    \/ \E delta \in Deltas : Tick(delta)

PlaybackSpec == PlaybackInit /\ [][PlaybackNext]_vars

\* ------------------------------------------------------------------------
\* run_loop: tick, draw, then at most one event, until Quit
\* ------------------------------------------------------------------------

\* what a pass of the loop may find after its draw: no event within the
\* tick rate, an event that is no key, a key that is not a press, a key
\* bound to no action, or a key bound to an action
Events == {"Timeout", "NotKey", "Release", "Unbound"} \cup Actions

\* one pass of the loop of run_loop: the App after it, and whether the loop
\* goes on
run_loop_pass(a, delta, height, metrics, event) ==
    LET drawn == draw(App_tick(a, delta), height, metrics)
    IN  IF event = "Quit" THEN [app |-> drawn, running |-> FALSE]
        ELSE IF event \in Actions
        THEN [app |-> apply_action(drawn, event), running |-> TRUE]
        ELSE [app |-> drawn, running |-> TRUE]

\* a pass of the loop
LoopPass(delta, height, metrics, event) ==
    /\ running
    /\ \E out \in {run_loop_pass(app, delta, height, metrics, event)} :
           /\ ViewNear(out.app.view, out.app.initial_view,
                       pan_step(draw(app, height, metrics)))
           /\ app' = out.app
           /\ running' = out.running
    /\ last_op' = Op("run_loop", event, app.show_help)
    /\ UNCHANGED parse_vars

LoopNext ==
    \E delta \in {d \in Deltas : \A e \in Deltas : e <= d},
       height \in {h \in Heights : \A g \in Heights : g <= h},
       metrics \in Metrics, event \in Events :
        LoopPass(delta, height, metrics, event)

LoopSpec == AppInit /\ [][LoopNext]_vars

\* the events of a session in which the view is left alone
LiveEvents ==
    {"Timeout", "Release", "TogglePlayback", "ToggleHelp", "ToggleFocus",
     "ToggleVisual", "LineUp", "PageDown", "Quit"}

\* the loop while a playback, once playing, is left to run: time passes
\* between two ticks, and the key pressed is neither the one bound to
\* TogglePlayback nor the one bound to Quit
LiveNext ==
    \E delta \in Deltas, height \in Heights, metrics \in Metrics,
       event \in LiveEvents :
        /\ app.playback.playing =>
               delta > 0 /\ event \notin {"TogglePlayback", "Quit"}
        /\ LoopPass(delta, height, metrics, event)

\* event::poll returns after the tick rate at the latest, so a loop that
\* has not left goes on to its next pass
LiveSpec == RangeInit /\ [][LiveNext]_vars /\ WF_vars(LiveNext)

\* ------------------------------------------------------------------------
\* The FilePanelState of an App under its own methods
\* ------------------------------------------------------------------------

\* the steps move_selection is called with
SelectionDeltas == {-2, -1, 1, 2}

\* a toolpath of a longer file
PanelToolpaths ==
    Toolpaths \cup {[segments |-> 3, line_segment_ends |-> <<0, 1, 1, 3, 3>>]}

\* file_panel.move_selection(delta, total), with the number of lines of the
\* file for the total
MoveSelection(delta) ==
    /\ app' = [app EXCEPT
                 !.file_panel = move_selection(@, delta, app.file_lines)]
    /\ last_op' = Op("move_selection", "", app.show_help)
    /\ UNCHANGED running
    /\ UNCHANGED parse_vars

\* file_panel.page_selection(direction, total)
PageSelection(direction) ==
    /\ app' = [app EXCEPT
                 !.file_panel = page_selection(@, direction, app.file_lines)]
    /\ last_op' = Op("page_selection", "", app.show_help)
    /\ UNCHANGED running
    /\ UNCHANGED parse_vars

\* file_panel.toggle_visual()
ToggleVisual ==
    /\ app' = [app EXCEPT !.file_panel = toggle_visual(@)]
    /\ last_op' = Op("toggle_visual", "", app.show_help)
    /\ UNCHANGED running
    /\ UNCHANGED parse_vars

\* file_panel.ensure_visible()
EnsureVisible ==
    /\ app' = [app EXCEPT !.file_panel = ensure_visible(@)]
    /\ last_op' = Op("ensure_visible", "", app.show_help)
    /\ UNCHANGED running
    /\ UNCHANGED parse_vars

PanelInit == AppInitOf(Configs, PanelToolpaths)

PanelNext ==
    \/ \E delta \in SelectionDeltas : MoveSelection(delta)
    \/ \E direction \in {-1, 1} : PageSelection(direction)
    \/ ToggleVisual
    \/ EnsureVisible
    \/ \E height \in Heights \cup {4}, metrics \in Metrics :
           Draw(height, metrics)

PanelSpec == PanelInit /\ [][PanelNext]_vars

\* ------------------------------------------------------------------------
\* Properties of the parse
\* ------------------------------------------------------------------------

\* Points that went through sqrt, atan2, sin and cos are compared up to Tol
\* thousandths: the rounding of the arithmetic above stays within it for every
\* arc whose end point lies on its circle.
Tol == 3

Near(p, q) ==
    /\ Abs(p.x - q.x) <= Tol
    /\ Abs(p.y - q.y) <= Tol
    /\ Abs(p.z - q.z) <= Tol

Origin == Vec3(0, 0, 0)

MinOf(S) == CHOOSE m \in S : \A v \in S : m <= v

MaxOf(S) == CHOOSE m \in S : \A v \in S : m >= v

\* the end points of all segments
EndPoints(segs) ==
    {segs[n].start : n \in 1..Len(segs)} \cup {segs[n].end : n \in 1..Len(segs)}

\* parse_line returned Ok for the line last passed to it
LineDone == status = "parsing" /\ idx > 0

ArcModes == {"ArcCW", "ArcCCW"}

\* the line last passed to parse_line was an arc that produced segments
ArcDone ==
    /\ LineDone
    /\ last_motion \in ArcModes
    /\ Len(parser.segments) > Len(before.segments)

\* the words of the line last passed to parse_line (<<>> when it is blank or
\* the lexer failed on it)
LastWords ==
    IF lex(last_line, parser.options).cleaned = "" THEN <<>>
    ELSE IF ~lex(last_line, parser.options).words.ok THEN <<>>
    ELSE lex(last_line, parser.options).words.val

HasLetter(words, letters) == \E n \in 1..Len(words) : words[n].letter \in letters

\* the locals of parse_line after its loop over the words of the last line
LastArgs == apply_words(Locals(before.state), LastWords, 1)

HasOffsets == LastArgs.i.some \/ LastArgs.j.some \/ LastArgs.k.some

\* C1: after n lines, all processed without error, line_segment_ends has n
\* entries, they never decrease, and the last one is the number of segments.
C1_LineSegmentEnds ==
    status # "failed" =>
        /\ Len(parser.line_segment_ends) = idx
        /\ \A n \in 1..(idx - 1) :
               parser.line_segment_ends[n] <= parser.line_segment_ends[n + 1]
        /\ idx > 0 => parser.line_segment_ends[idx] = Len(parser.segments)

\* a blank line, then an arc of several segments, then a line without motion
C1_Witness ==
    /\ status = "parsing"
    /\ idx = 3
    /\ parser.line_segment_ends[1] = 0
    /\ parser.line_segment_ends[2] > 1
    /\ parser.line_segment_ends[3] = parser.line_segment_ends[2]
    /\ last_motion = "None"

\* C2: the segment list is connected: the first segment starts at the origin
\* and every later segment starts where the one before it ends (points that
\* went through the arc solver compared up to Tol).
C2_Connected ==
    \A n \in 1..Len(parser.segments) :
        IF n = 1
        THEN parser.segments[n].start = Origin
        ELSE Near(parser.segments[n].start, parser.segments[n - 1].end)

\* C3: bounds.initialized is true exactly when a segment was emitted, and
\* then min and max are, per axis, the least and greatest coordinate over the
\* start and end points of all segments.
C3_BoundsExact ==
    LET pts == EndPoints(parser.segments)
        b   == parser.bounds
    IN  /\ b.initialized = (parser.segments # <<>>)
        /\ b.initialized =>
             /\ b.min.x = MinOf({q.x : q \in pts})
             /\ b.min.y = MinOf({q.y : q \in pts})
             /\ b.min.z = MinOf({q.z : q \in pts})
             /\ b.max.x = MaxOf({q.x : q \in pts})
             /\ b.max.y = MaxOf({q.y : q \in pts})
             /\ b.max.z = MaxOf({q.z : q \in pts})

\* bounds widened on every axis by linear and arc moves, the extremes not
\* being the first point included
C3_Witness ==
    /\ parser.bounds.initialized
    /\ parser.stats.arc_moves > 0
    /\ parser.stats.rapid_moves + parser.stats.feed_moves > parser.stats.arc_moves
    /\ parser.bounds.min.x < 0
    /\ parser.bounds.min.y < 0
    /\ parser.bounds.max.z > 0
    /\ parser.bounds.max.x > 0

\* C4: every error parsing returns carries the 1-based number of the line
\* that raised it.
C4_ErrorsCarryLine ==
    status = "failed" => result.err.context = idx

\* C5: when parse_line fails on a line, parse_file_with_options returns
\* that error and no Toolpath and processes no further line; it returns a
\* Toolpath only when every line was processed without error.
C5_AbortOnFirstError ==
    [][/\ (status = "parsing"
              /\ parser'.stats.line_count = parser.stats.line_count + 1) =>
             \A out \in {parse_line(parser, last_line', idx')} :
                 ~out.res.ok => (status' = "failed" /\ result' = out.res)
       /\ status = "failed" => UNCHANGED vars
       /\ (status' = "done" /\ status # "done") =>
             /\ result'.ok
             /\ Len(result'.val.line_segment_ends) = idx
             /\ parser.stats.line_count = idx
       /\ (status' # "done") => (result' = Pending \/ ~result'.ok)]_vars

\* the second line failed in the arc solver after the first emitted segments
C5_Witness ==
    /\ status = "failed"
    /\ idx = 2
    /\ ~result.ok
    /\ result.err.kind = "ArcRadiusTooSmall"
    /\ Len(parser.segments) > 0

\* C6: a rapid or feed line whose computed end differs from the current
\* position emits exactly one segment, from the position before the line to
\* the position after it, of the line's motion kind; each axis of the end is
\* the given value in absolute mode, the current value plus the given value
\* in relative mode, and the current value when the axis letter is absent.
C6_LinearMove ==
    LET s    == before.state.pos
        mode == parser.state.distance_mode
        Axis(cur, w) ==
            IF ~w.some THEN cur
            ELSE IF mode = "Absolute" THEN w.v ELSE cur + w.v
        end  == Vec3(Axis(s.x, LastArgs.x), Axis(s.y, LastArgs.y),
                     Axis(s.z, LastArgs.z))
    IN  (LineDone /\ last_motion \in {"Rapid", "Feed"} /\ end # s) =>
            /\ parser.segments =
                 Append(before.segments,
                        [start |-> s, end |-> end, kind |-> last_motion])
            /\ parser.state.pos = end

\* a relative feed move away from the origin, X absent, Y and Z given
C6_Witness ==
    /\ LineDone
    /\ last_line = "Y-0.25 Z0.5"
    /\ last_motion = "Feed"
    /\ parser.state.distance_mode = "Relative"
    /\ before.state.pos.x # 0
    /\ before.state.pos.y # 0
    /\ Len(parser.segments) = Len(before.segments) + 1

MotionOfCode(code) ==
    CASE code = 0 -> "Rapid"
      [] code = 1 -> "Feed"
      [] code = 2 -> "ArcCW"
      [] code = 3 -> "ArcCCW"

\* the numbers of the G words of the line whose code is 0, 1, 2 or 3
MotionWords(words) ==
    {n \in 1..Len(words) :
        words[n].letter = "G" /\ RDiv(words[n].value, Scale) \in 0..3}

\* C7: the motion executed for a line is that of the last motion G word
\* (G0 to G3) on the line; without one, the previously active motion mode
\* when any of X, Y, Z, I, J, K is present; otherwise none.
C7_MotionSelection ==
    LineDone =>
        last_motion =
            IF MotionWords(LastWords) # {}
            THEN MotionOfCode(
                     RDiv(LastWords[MaxOf(MotionWords(LastWords))].value, Scale))
            ELSE IF HasLetter(LastWords, {"X", "Y", "Z", "I", "J", "K"})
            THEN before.state.motion_mode
            ELSE "None"

\* a line of R alone after an arc line executes no motion
C7_Witness ==
    /\ LineDone
    /\ last_line = "R0.5"
    /\ before.state.motion_mode \in ArcModes
    /\ last_motion = "None"

\* C8: the last segment of every arc line that produced segments ends at the
\* commanded end point, up to Tol.
C8_ArcEndsAtTarget ==
    ArcDone => Near(parser.segments[Len(parser.segments)].end, parser.state.pos)

\* the commanded end of the last arc lies on the circle through its start
EndOnCircle ==
    LET s == plane_coords(before.state.pos, parser.state.plane)
        e == plane_coords(parser.state.pos, parser.state.plane)
        c == plane_coords(last_center.v, parser.state.plane)
    IN  Abs(Sqrt((e[1] - c[1]) * (e[1] - c[1]) + (e[2] - c[2]) * (e[2] - c[2]))
            - Sqrt((s[1] - c[1]) * (s[1] - c[1]) + (s[2] - c[2]) * (s[2] - c[2])))
          <= 1

\* The arcs that violate C8 are those whose commanded end is off the circle:
\* when it is on the circle, the last segment ends there up to Tol.
ArcOnCircleEndsAtTarget ==
    (ArcDone /\ EndOnCircle) =>
        Near(parser.segments[Len(parser.segments)].end, parser.state.pos)

\* C9: a radius-form arc whose in-plane chord is shorter than 2|R| gets the
\* center whose sweep is at most PI in magnitude when R is positive and more
\* than PI when R is negative.
C9_RadiusSignPicksSweep ==
    LET s  == plane_coords(before.state.pos, parser.state.plane)
        e  == plane_coords(parser.state.pos, parser.state.plane)
        c  == plane_coords(last_center.v, parser.state.plane)
        dx == e[1] - s[1]
        dy == e[2] - s[2]
        r  == LastArgs.r.v
        sweep == sweep_for_center(s[1], s[2], e[1], e[2], c[1], c[2],
                                  last_motion = "ArcCW")
    IN  (ArcDone /\ last_center.some /\ ~HasOffsets /\ LastArgs.r.some
            /\ dx * dx + dy * dy < 4 * r * r) =>
            IF r > 0 THEN Abs(sweep) <= PI ELSE Abs(sweep) > PI

\* a clockwise arc of negative R, drawn the long way round in several segments
C9_Witness ==
    /\ ArcDone
    /\ last_line = "G2 X-0.25 Y0.25 R-0.25"
    /\ last_center.some
    /\ before.state.pos # Origin
    /\ Len(parser.segments) > Len(before.segments) + 1

\* C10: the offset-form center is the start point with the two axes of the
\* active plane shifted by their offsets (XY: I, J; XZ: I, K; YZ: J, K), an
\* absent offset counting as zero; the offset of the out-of-plane axis has
\* no effect and the out-of-plane coordinate is the start's.
C10_OffsetCenter ==
    LET s == before.state.pos
        c == last_center.v
        i == IF LastArgs.i.some THEN LastArgs.i.v ELSE 0
        j == IF LastArgs.j.some THEN LastArgs.j.v ELSE 0
        k == IF LastArgs.k.some THEN LastArgs.k.v ELSE 0
    IN  (LineDone /\ last_motion \in ArcModes /\ last_center.some /\ HasOffsets) =>
            CASE parser.state.plane = "XY" ->
                   c = Vec3(s.x + i, s.y + j, s.z)
              [] parser.state.plane = "XZ" ->
                   c = Vec3(s.x + i, s.y, s.z + k)
              [] parser.state.plane = "YZ" ->
                   c = Vec3(s.x, s.y + j, s.z + k)

\* an XZ arc away from the origin with K, an out-of-plane J and no I
C10_Witness ==
    /\ ArcDone
    /\ last_line = "G18 G3 X0.25 Z0.25 J0.5 K0.25"
    /\ last_center.some
    /\ before.state.pos.y # 0
    /\ before.state.pos.z # 0

\* the last step was a call of parse_line (it may have failed)
LineParsed == idx > 0 /\ status # "done" /\ parser.stats.line_count = idx

\* parse_line failed on the last line with an error of this kind
FailedWith(kind) ==
    LineParsed /\ status = "failed" /\ result.err.kind = kind

\* the end point the last line commands, from its axis words
LastEnd ==
    move_end([state |-> [before.state EXCEPT
                            !.distance_mode = LastArgs.state.distance_mode]],
             LastArgs.x, LastArgs.y, LastArgs.z)

\* the last line got past the lexer with words and selected an arc whose
\* commanded end differs from the current position
ArcAttempt ==
    /\ LineParsed
    /\ last_motion \in ArcModes
    /\ LastEnd # before.state.pos

\* the offsets of the last line in the two axes of the active plane are zero
\* or absent
NoInPlaneOffset ==
    LET zero(o) == ~o.some \/ (o.v = 0 /\ ~o.tiny)
        i == zero(LastArgs.i)
        j == zero(LastArgs.j)
        k == zero(LastArgs.k)
    IN  CASE parser.state.plane = "XY" -> i /\ j
          [] parser.state.plane = "XZ" -> i /\ k
          [] parser.state.plane = "YZ" -> j /\ k

\* C11: an arc line whose computed end differs from the current position
\* fails with the arc-center-missing error exactly when it has no I, J, K
\* and no R word, or has offset letters but a center equal to the start
\* point; in both cases no segment is emitted.
C11_ArcCenterMissing ==
    ArcAttempt =>
        /\ FailedWith("ArcCenterMissing") <=>
             \/ ~HasOffsets /\ ~LastArgs.r.some
             \/ HasOffsets /\ NoInPlaneOffset
        /\ FailedWith("ArcCenterMissing") =>
             /\ parser.segments = before.segments
             /\ parser.line_segment_ends = before.line_segment_ends

\* in the XZ plane, an arc line whose only offset letter is J fails, the
\* segments of the lines before it untouched
C11_Witness ==
    /\ ArcAttempt
    /\ FailedWith("ArcCenterMissing")
    /\ HasOffsets
    /\ LastArgs.j.some /\ LastArgs.j.v # 0
    /\ parser.state.plane = "XZ"
    /\ Len(parser.segments) > 0

\* the last line is an arc in radius form: an R word and no I, J or K
RadiusAttempt == ArcAttempt /\ ~HasOffsets /\ LastArgs.r.some

\* the length of the chord of the last arc in the active plane
LastChord ==
    LET s == plane_coords(before.state.pos, parser.state.plane)
        e == plane_coords(LastEnd, parser.state.plane)
    IN  Sqrt((e[1] - s[1]) * (e[1] - s[1]) + (e[2] - s[2]) * (e[2] - s[2]))

\* C12: a radius-form arc fails with the degenerate-arc error when start and
\* end coincide in the active plane, even if they differ on the third axis;
\* otherwise it fails with the radius-too-small error when the in-plane
\* chord exceeds 2|R|; in every other case a center is returned.
C12_RadiusFormErrors ==
    RadiusAttempt =>
        IF plane_coords(before.state.pos, parser.state.plane)
             = plane_coords(LastEnd, parser.state.plane)
        THEN FailedWith("ArcDegenerate")
        ELSE IF LastChord > 2 * Abs(LastArgs.r.v)
        THEN FailedWith("ArcRadiusTooSmall")
        ELSE status = "parsing" /\ last_center.some

\* an arc whose end differs from its start on the out-of-plane axis only
C12_Witness ==
    /\ RadiusAttempt
    /\ FailedWith("ArcDegenerate")
    /\ LastEnd # before.state.pos
    /\ LastChord = 0

\* the segments the last line appended
NewSegments ==
    SubSeq(parser.segments, Len(before.segments) + 1, Len(parser.segments))

ValueLess(cleaned) ==
    {n \in 1..Len(cleaned) :
        /\ is_ascii_alphabetic(CharAt(cleaned, n))
        /\ \A m \in (n + 1)..Len(cleaned) :
               \/ CharAt(cleaned, m) = NBSP
               \/ \E q \in (n + 1)..m :
                      \/ is_ascii_whitespace(CharAt(cleaned, q))
                      \/ is_ascii_alphabetic(CharAt(cleaned, q))}

\* the positions of all letters of a line
Letters(cleaned) ==
    {n \in 1..Len(cleaned) : is_ascii_alphabetic(CharAt(cleaned, n))}

\* a value-less letter that the options tolerate
Tolerated(letter, options) ==
    \/ letter \in options.ignore_missing_value
    \/ /\ options.ignore_unknown_words
       /\ letter \notin {"G", "X", "Y", "Z", "I", "J", "K", "R"}

\* the value-less letters of the last line that the options do not tolerate
Untolerated ==
    {n \in ValueLess(lex(last_line, parser.options).cleaned) :
        ~Tolerated(to_ascii_uppercase(
                       CharAt(lex(last_line, parser.options).cleaned, n)),
                   parser.options)}

\* C14: a letter followed by no numeric literal is dropped if the
\* upper-cased letter is in the tolerated-missing set, or if
\* ignore_unknown_words is set and the letter is none of G, X, Y, Z, I, J,
\* K, R; otherwise the line fails with an error naming the (first such)
\* letter.
C14_MissingValue ==
    LET cleaned == lex(last_line, parser.options).cleaned
    IN  (LineParsed /\ cleaned # "") =>
            IF Untolerated = {}
            THEN /\ ~FailedWith("MissingValue")
                 /\ status = "parsing" =>
                      Len(LastWords) = Cardinality(Letters(cleaned))
                                         - Cardinality(ValueLess(cleaned))
            ELSE /\ FailedWith("MissingValue")
                 /\ result.err.letter =
                      to_ascii_uppercase(CharAt(cleaned, MinOf(Untolerated)))

\* a lower-case e and an M, both without a value, dropped from a line whose
\* other words are executed
C14_Witness ==
    /\ LineParsed
    /\ status = "parsing"
    /\ last_line = "G91 e G1 z0.5 M"
    /\ Cardinality(ValueLess(lex(last_line, parser.options).cleaned)) = 2
    /\ Len(parser.segments) > 0

KnownLetters == {"G", "X", "Y", "Z", "I", "J", "K", "R"}

\* the last line is blank once its comments are stripped, or every letter on
\* it is an unrecognized one or a value-less one that the options tolerate
NoRecognizedWord ==
    LET cleaned == lex(last_line, parser.options).cleaned
    IN  /\ LineParsed
        /\ ~FailedWith("InvalidFloat")
        /\ Untolerated = {}
        /\ \A n \in Letters(cleaned) :
               \/ to_ascii_uppercase(CharAt(cleaned, n)) \notin KnownLetters
               \/ n \in ValueLess(cleaned)

\* the move counters of a parser
MoveCounters(p) ==
    <<p.stats.rapid_moves, p.stats.feed_moves, p.stats.arc_moves>>

\* the entry of line_segment_ends that repeats the one before it
SameLineEnd(ends) == IF ends = <<>> THEN 0 ELSE ends[Len(ends)]

\* C15: a line that is blank after comment stripping, or made only of words
\* with unrecognized letters and of tolerated value-less letters, emits no
\* segment, raises no error, leaves position, modal state, bounds and move
\* counters unchanged, and its line_segment_ends entry repeats the previous
\* line's (0 for the first line).
C15_NoRecognizedWord ==
    NoRecognizedWord =>
        /\ status = "parsing"
        /\ parser.segments = before.segments
        /\ parser.state = before.state
        /\ parser.bounds = before.bounds
        /\ MoveCounters(parser) = MoveCounters(before)
        /\ parser.line_segment_ends =
             Append(before.line_segment_ends,
                    SameLineEnd(before.line_segment_ends))

\* after a move away from the origin, a line of a value-less x and a
\* value-less e, both tolerated
C15_Witness ==
    /\ NoRecognizedWord
    /\ last_line = "x e"
    /\ idx = 2
    /\ before.state.pos.x # 0
    /\ parser.line_segment_ends = <<1, 1>>

\* the last line selected a rapid or feed move whose computed end is the
\* current position
LinearNoOp ==
    /\ LineParsed
    /\ last_motion \in {"Rapid", "Feed"}
    /\ LastEnd = before.state.pos

\* what a linear move to the current position leaves alone
NoOpFrame ==
    /\ status = "parsing"
    /\ parser.segments = before.segments
    /\ parser.state.pos = before.state.pos
    /\ parser.bounds = before.bounds
    /\ MoveCounters(parser) = MoveCounters(before)

\* C16, as claimed: a rapid or feed line whose computed end equals the
\* current position emits no segment, raises no error and changes no state:
\* position, bounds, move counters and the whole modal state are as before
\* the line.
C16_NoOpChangesNothing ==
    LinearNoOp => (NoOpFrame /\ parser.state = before.state)

\* C16, amended: such a line emits no segment, raises no error and leaves
\* position, bounds and move counters as they were; the modal state changes
\* only through the G words of the line, so a line without G words leaves
\* it unchanged too.
C16_NoOpFrame ==
    LinearNoOp =>
        /\ NoOpFrame
        /\ ~HasLetter(LastWords, {"G"}) => parser.state = before.state

\* away from the origin, a line of G1 alone: nothing moves, but the motion
\* mode becomes Feed
C16_Witness ==
    /\ LinearNoOp
    /\ last_line = "G1"
    /\ before.state.pos # Origin
    /\ before.state.motion_mode # "Feed"
    /\ parser.state.motion_mode = "Feed"
    /\ parser.segments = before.segments

\* C17: at every line boundary of a parse, not only after finish,
\* stats.line_count is the number of line_segment_ends entries and
\* stats.segment_count is the number of accumulated segments.
C17_StatsConsistent ==
    status = "parsing" =>
        /\ parser.stats.line_count = Len(parser.line_segment_ends)
        /\ parser.stats.segment_count = Len(parser.segments)

\* the codes a G word is recognized by
GCodes == {0, 1, 2, 3, 17, 18, 19, 20, 21, 90, 91}

\* the numbers of the G words of a line
GWords(words) == {n \in 1..Len(words) : words[n].letter = "G"}

\* the value of the word is exactly the code
IsCode(word, code) == word.value = code * Scale

\* the modal fields of a parser state
Modal(state) ==
    [motion_mode |-> state.motion_mode, plane |-> state.plane,
     units_scale |-> state.units_scale, distance_mode |-> state.distance_mode]

\* the modal fields after a G word of one of the codes
ModalAfter(modal, word) ==
    CASE IsCode(word, 0) -> [modal EXCEPT !.motion_mode = "Rapid"]
      [] IsCode(word, 1) -> [modal EXCEPT !.motion_mode = "Feed"]
      [] IsCode(word, 2) -> [modal EXCEPT !.motion_mode = "ArcCW"]
      [] IsCode(word, 3) -> [modal EXCEPT !.motion_mode = "ArcCCW"]
      [] IsCode(word, 17) -> [modal EXCEPT !.plane = "XY"]
      [] IsCode(word, 18) -> [modal EXCEPT !.plane = "XZ"]
      [] IsCode(word, 19) -> [modal EXCEPT !.plane = "YZ"]
      [] IsCode(word, 20) -> [modal EXCEPT !.units_scale = InchScale]
      [] IsCode(word, 21) -> [modal EXCEPT !.units_scale = MmScale]
      [] IsCode(word, 90) -> [modal EXCEPT !.distance_mode = "Absolute"]
      [] IsCode(word, 91) -> [modal EXCEPT !.distance_mode = "Relative"]

\* C18: a G word whose value, integral or fractional, is none of 0, 1, 2, 3,
\* 17, 18, 19, 20, 21, 90, 91 is ignored: it changes no modal field, selects
\* no motion and raises no error; a G word whose value is one of the codes
\* changes just the one modal field of that code.
C18_GWordCodes ==
    (LineParsed /\ Cardinality(GWords(LastWords)) = 1) =>
        LET word == LastWords[CHOOSE n \in GWords(LastWords) : TRUE]
        IN  IF \E code \in GCodes : IsCode(word, code)
            THEN Modal(parser.state) = ModalAfter(Modal(before.state), word)
            ELSE /\ status = "parsing"
                 /\ Modal(parser.state) = Modal(before.state)
                 /\ last_motion =
                      IF HasLetter(LastWords, {"X", "Y", "Z", "I", "J", "K"})
                      THEN before.state.motion_mode
                      ELSE "None"

\* the code of the last G word of the line that is one of codes, -1 if none
LastCode(words, codes) ==
    LET ns == {n \in GWords(words) : RDiv(words[n].value, Scale) \in codes}
    IN  IF ns = {} THEN -1 ELSE RDiv(words[MaxOf(ns)].value, Scale)

\* the last line has no G word, has an axis word and commands a move away
\* from the current position
CoordinateOnlyMove ==
    /\ LineDone
    /\ GWords(LastWords) = {}
    /\ HasLetter(LastWords, {"X", "Y", "Z"})
    /\ LastEnd # before.state.pos

\* C19: each modal field has the value set by the most recent G word for
\* that field on this or an earlier line, or its initial default (rapid, XY,
\* millimeters, absolute, position at the origin); so a first line of axis
\* letters only yields a Rapid segment from the origin and a coordinate-only
\* line after a G1 line yields a Feed segment.
C19_ModalPersistence ==
    /\ idx = 0 =>
         parser.state = [pos |-> Origin, units_scale |-> Scale,
                         distance_mode |-> "Absolute", plane |-> "XY",
                         motion_mode |-> "Rapid"]
    /\ LineDone =>
         LET motion == LastCode(LastWords, {0, 1, 2, 3})
             plane  == LastCode(LastWords, {17, 18, 19})
             units  == LastCode(LastWords, {20, 21})
             dist   == LastCode(LastWords, {90, 91})
         IN  /\ parser.state.motion_mode =
                  IF motion = -1 THEN before.state.motion_mode
                  ELSE MotionOfCode(motion)
             /\ parser.state.plane =
                  CASE plane = -1 -> before.state.plane
                    [] plane = 17 -> "XY"
                    [] plane = 18 -> "XZ"
                    [] plane = 19 -> "YZ"
             /\ parser.state.units_scale =
                  CASE units = -1 -> before.state.units_scale
                    [] units = 20 -> 25 * Scale + (4 * Scale) \div 10
                    [] units = 21 -> Scale
             /\ parser.state.distance_mode =
                  CASE dist = -1 -> before.state.distance_mode
                    [] dist = 90 -> "Absolute"
                    [] dist = 91 -> "Relative"
    /\ (CoordinateOnlyMove /\ idx = 1) =>
         parser.segments =
           <<[start |-> Origin, end |-> LastEnd, kind |-> "Rapid"]>>
    /\ (CoordinateOnlyMove /\ before.state.motion_mode = "Feed") =>
         NewSegments =
           <<[start |-> before.state.pos, end |-> LastEnd, kind |-> "Feed"]>>

\* G91 and G1 given on the first two lines still govern the third, a line
\* of coordinates only
C19_Witness ==
    /\ CoordinateOnlyMove
    /\ idx = 3
    /\ before.line_segment_ends = <<0, 1>>
    /\ parser.state.distance_mode = "Relative"
    /\ parser.state.motion_mode = "Feed"
    /\ parser.segments[2].kind = "Feed"

\* C20: across every parse step the bounds only widen: once initialized the
\* flag never becomes false again, and on each axis the new min is at most
\* the old min and the new max at least the old max.
C20_BoundsOnlyWiden ==
    [][parser.bounds.initialized =>
         /\ parser'.bounds.initialized
         /\ parser'.bounds.min.x <= parser.bounds.min.x
         /\ parser'.bounds.min.y <= parser.bounds.min.y
         /\ parser'.bounds.min.z <= parser.bounds.min.z
         /\ parser'.bounds.max.x >= parser.bounds.max.x
         /\ parser'.bounds.max.y >= parser.bounds.max.y
         /\ parser'.bounds.max.z >= parser.bounds.max.z]_vars

\* a line that widened initialized bounds downwards on one axis and upwards
\* on another, leaving the third
C20_Witness ==
    /\ LineDone
    /\ before.bounds.initialized
    /\ parser.bounds.min.y < before.bounds.min.y
    /\ parser.bounds.max.z > before.bounds.max.z
    /\ parser.bounds.min.x = before.bounds.min.x
    /\ parser.bounds.max.x = before.bounds.max.x

\* the number of segments the line before the last one emitted
PriorEmitted ==
    LET ends == before.line_segment_ends
    IN  IF ends = <<>> THEN 0
        ELSE IF Len(ends) = 1 THEN ends[1]
        ELSE ends[Len(ends)] - ends[Len(ends) - 1]

LinearModes == {"Rapid", "Feed"}

\* the line before the last one was a linear move in relative mode (the
\* motion a line executes is the motion mode it leaves), and the last line
\* is a linear move in relative mode by the opposite displacement
InverseMoves ==
    /\ LineDone
    /\ idx >= 2
    /\ PriorEmitted = 1
    /\ before.state.motion_mode \in LinearModes
    /\ before.state.distance_mode = "Relative"
    /\ last_motion \in LinearModes
    /\ parser.state.distance_mode = "Relative"
    /\ LET first == before.segments[Len(before.segments)]
       IN  /\ unwrap_or(LastArgs.x, 0) = first.start.x - first.end.x
           /\ unwrap_or(LastArgs.y, 0) = first.start.y - first.end.y
           /\ unwrap_or(LastArgs.z, 0) = first.start.z - first.end.z

ArcToStart ==
    /\ LineParsed
    /\ last_motion \in ArcModes
    /\ LastEnd = before.state.pos

\* C22: an arc line whose computed end equals the current position raises
\* no error, emits no segment and changes neither position nor bounds nor
\* move counters, whatever I, J, K, R words it has or lacks; the solver is
\* not called (no center is computed, no full circle is produced).
C22_ArcToStartIsNoOp ==
    ArcToStart =>
        /\ status = "parsing"
        /\ parser.segments = before.segments
        /\ parser.state.pos = before.state.pos
        /\ parser.bounds = before.bounds
        /\ MoveCounters(parser) = MoveCounters(before)
        /\ last_center = None
        /\ parser.line_segment_ends =
             Append(before.line_segment_ends,
                    SameLineEnd(before.line_segment_ends))

\* away from the origin, an arc line with neither offsets nor radius that
\* commands the current position
C22_Witness ==
    /\ ArcToStart
    /\ ~HasOffsets
    /\ ~LastArgs.r.some
    /\ LastArgs.x.some
    /\ before.state.pos # Origin
    /\ before.bounds.initialized

\* an arc line with offsets that commands the current position
C22_WitnessOffsets ==
    /\ ArcToStart
    /\ HasOffsets
    /\ before.state.pos # Origin

\* the positions of the words of the last line that have this letter
WordsOf(letter) == {n \in 1..Len(LastWords) : LastWords[n].letter = letter}

\* the words of the last line before position n that set the units
UnitWordsBefore(n) ==
    {m \in 1..(n - 1) :
        /\ LastWords[m].letter = "G"
        /\ RDiv(LastWords[m].value, Scale) \in {20, 21}}

\* the units factor in force when word n of the last line is read
FactorAt(n) ==
    IF UnitWordsBefore(n) = {} THEN before.state.units_scale
    ELSE IF RDiv(LastWords[MaxOf(UnitWordsBefore(n))].value, Scale) = 20
    THEN InchScale
    ELSE MmScale

\* the value the last line gives for a letter, in millimetres: that of the
\* last word with the letter, times the factor in force when it is read
ValueRead(letter) ==
    IF WordsOf(letter) = {} THEN None
    ELSE Some(RDiv(LastWords[MaxOf(WordsOf(letter))].value
                     * FactorAt(MaxOf(WordsOf(letter))), Scale))

\* where an axis goes from a current value, given the value read for it
AxisTarget(current, read) ==
    IF ~read.some THEN current
    ELSE IF parser.state.distance_mode = "Relative" THEN current + read.v
    ELSE read.v

\* the position the last line commands, each axis word scaled by the factor
\* in force when it is read
TargetRead ==
    Vec3(AxisTarget(before.state.pos.x, ValueRead("X")),
         AxisTarget(before.state.pos.y, ValueRead("Y")),
         AxisTarget(before.state.pos.z, ValueRead("Z")))

\* the last line has a G20 or G21 with a coordinate word on either side
UnitsChangeMidLine ==
    \E n \in 1..Len(LastWords) :
        /\ n \in UnitWordsBefore(n + 1)
        /\ FactorAt(n + 1) # FactorAt(n)
        /\ \E m \in 1..(n - 1) : LastWords[m].letter \in {"X", "Y", "Z", "I", "J", "K", "R"}
        /\ \E m \in (n + 1)..Len(LastWords) :
               LastWords[m].letter \in {"X", "Y", "Z", "I", "J", "K", "R"}

\* C23: each X, Y, Z, I, J, K, R value is multiplied by the units factor in
\* force when its word is read, left to right: a G20 or G21 scales the
\* coordinate words after it on the line and on later lines, not those
\* before it, and the stored position is never rescaled: a line without a
\* motion leaves it, a linear move takes each axis to the value read for it
\* and leaves the other axes, an arc ends there too, its center offset from
\* the start by the I, J, K read or a radius R away from it.
C23_UnitsPerWord ==
    LineDone =>
        /\ last_motion = "None" => parser.state.pos = before.state.pos
        /\ last_motion \in LinearModes => parser.state.pos = TargetRead
        /\ ArcDone => parser.state.pos = TargetRead
        /\ ArcDone /\ HasOffsets =>
             last_center.v =
                 with_plane_coords(before.state.pos, parser.state.plane,
                     plane_coords(before.state.pos, parser.state.plane)[1]
                       + unwrap_or(IF parser.state.plane = "YZ"
                                   THEN ValueRead("J") ELSE ValueRead("I"), 0),
                     plane_coords(before.state.pos, parser.state.plane)[2]
                       + unwrap_or(IF parser.state.plane = "XY"
                                   THEN ValueRead("J") ELSE ValueRead("K"), 0))
        /\ ArcDone /\ ~HasOffsets =>
             LET s == plane_coords(before.state.pos, parser.state.plane)
                 c == plane_coords(last_center.v, parser.state.plane)
             IN  Abs(Sqrt((c[1] - s[1]) * (c[1] - s[1])
                            + (c[2] - s[2]) * (c[2] - s[2]))
                       - Abs(ValueRead("R").v)) <= Tol

\* a rapid move whose X is read in millimetres and whose Y, after a G20 on
\* the same line, in inches; the inches stay for the next line, which moves
\* Z and leaves the X and Y reached
C23_Witness ==
    /\ LineDone
    /\ idx = 2
    /\ last_line = "Z0.02"
    /\ before.state.pos = Vec3(250, 254, 0)
    /\ parser.state.pos = Vec3(250, 254, 508)
    /\ parser.state.units_scale = InchScale

\* an arc whose end is read in inches and whose offsets, after a G21, in
\* millimetres
C23_WitnessArc ==
    /\ ArcDone
    /\ UnitsChangeMidLine
    /\ HasOffsets
    /\ parser.state.pos = Vec3(508, 0, 0)

\* the last line is an arc with an end away from the current position that
\* has both an offset letter and R
OffsetsAndRadius == ArcAttempt /\ HasOffsets /\ LastArgs.r.some

\* the center the offsets of the last line give
OffsetCenter ==
    LET s == before.state.pos
    IN  CASE parser.state.plane = "XY" ->
               Vec3(s.x + unwrap_or(LastArgs.i, 0), s.y + unwrap_or(LastArgs.j, 0), s.z)
          [] parser.state.plane = "XZ" ->
               Vec3(s.x + unwrap_or(LastArgs.i, 0), s.y, s.z + unwrap_or(LastArgs.k, 0))
          [] parser.state.plane = "YZ" ->
               Vec3(s.x, s.y + unwrap_or(LastArgs.j, 0), s.z + unwrap_or(LastArgs.k, 0))

\* C24: an arc line that has any of I, J, K together with R takes the offset
\* form and ignores R: it fails with the arc-center-missing error when its
\* offsets in the active plane are absent or zero (so too when its only
\* offset letter is the one outside the plane), never with an error of the
\* radius form, and otherwise its center is the start plus the offsets.
C24_OffsetsOverRadius ==
    OffsetsAndRadius =>
        /\ NoInPlaneOffset => FailedWith("ArcCenterMissing")
        /\ ~NoInPlaneOffset =>
             /\ status = "parsing"
             /\ last_center = Some(OffsetCenter)
        /\ ~FailedWith("ArcRadiusTooSmall")
        /\ ~FailedWith("ArcDegenerate")

\* in the XZ plane, an arc with R and an out-of-plane J as its only offset
\* letter fails although its radius spans the chord
C24_Witness ==
    /\ OffsetsAndRadius
    /\ parser.state.plane = "XZ"
    /\ LastArgs.j.some /\ ~LastArgs.i.some /\ ~LastArgs.k.some
    /\ Abs(LastArgs.r.v) * 2 >= LastChord
    /\ FailedWith("ArcCenterMissing")

\* an arc with an in-plane offset and a radius too small for its chord
\* succeeds about the offset center
C24_WitnessIgnored ==
    /\ OffsetsAndRadius
    /\ ~NoInPlaneOffset
    /\ Abs(LastArgs.r.v) * 2 < LastChord
    /\ status = "parsing"

\* the sweeps computed so far for the call
SweepsOut ==
    {o.v : o \in {s \in {sweep_out.solver, sweep_out.rasterizer} : s.some}}

\* start and end of the call lie in the same direction from the center
SameAngle ==
    LET ax == sweep_in.sx.v - sweep_in.cx.v
        ay == sweep_in.sy.v - sweep_in.cy.v
        bx == sweep_in.ex.v - sweep_in.cx.v
        by == sweep_in.ey.v - sweep_in.cy.v
    IN  ax * by - ay * bx = 0 /\ ax * bx + ay * by > 0

\* C25: the sweep computed for a center has the sign of the requested
\* direction and is never zero: clockwise it is in [-TAU, 0), counter-
\* clockwise in (0, TAU], a full turn when start and end have the same angle
\* about the center; the solver and the rasterizer compute the same sweep
\* for the same arguments.
C25_SweepSignAndRange ==
    \A s \in SweepsOut :
        /\ sweep_in.clockwise => -TAU <= s /\ s < 0
        /\ ~sweep_in.clockwise => 0 < s /\ s <= TAU
        /\ SameAngle => Abs(s) = TAU
        /\ \A t \in SweepsOut : s = t

\* what does hold of the sweeps: they agree, have the sign of the direction
\* or are zero, and reach at most a full turn
SweepsAgreeInClosedRange ==
    \A s \in SweepsOut :
        /\ sweep_in.clockwise => -TAU <= s /\ s <= 0
        /\ ~sweep_in.clockwise => 0 <= s /\ s <= TAU
        /\ \A t \in SweepsOut : s = t

\* unless one of start and end is on the negative x axis from the center
\* with a -0.0 difference in y, the sweeps are as C25 has them
SignedZeroFree ==
    LET sy == f64_sub(sweep_in.sy, sweep_in.cy)
        ey == f64_sub(sweep_in.ey, sweep_in.cy)
    IN  ~(sy.v = 0 /\ sy.neg) /\ ~(ey.v = 0 /\ ey.neg)

SweepSignAndRangeSignedZeroFree == SignedZeroFree => C25_SweepSignAndRange

\* the in-plane distance between two points
PlaneDist(a, b) ==
    LET s == plane_coords(a, parser.state.plane)
        e == plane_coords(b, parser.state.plane)
    IN  Sqrt((e[1] - s[1]) * (e[1] - s[1]) + (e[2] - s[2]) * (e[2] - s[2]))

\* the in-plane radius of the last arc, from its start to its center
LastRadius == PlaneDist(before.state.pos, last_center.v)

\* the sweep of the last arc from its start to its commanded end about its
\* center
LastSweep ==
    LET s == plane_coords(before.state.pos, parser.state.plane)
        e == plane_coords(parser.state.pos, parser.state.plane)
        c == plane_coords(last_center.v, parser.state.plane)
    IN  sweep_for_center(s[1], s[2], e[1], e[2], c[1], c[2],
                         last_motion = "ArcCW")

\* the length of the last arc
LastArcLength == RDiv(LastRadius * Abs(LastSweep), TrigScale)

\* C26: an arc whose in-plane radius is not below 1e-6 is rasterized into
\* exactly max(1, ceil(radius * |sweep| / 0.5)) segments, so at least one,
\* in equal angular steps (every segment end is on the circle and the
\* in-plane chords of the segments are equal), none covering more than 0.5
\* units of arc length.
C26_StepCount ==
    ArcDone =>
        /\ Len(NewSegments) =
             Max(1, CeilDiv(LastArcLength, ARC_SEGMENT_LENGTH))
        /\ Len(NewSegments) >= 1
        /\ LastArcLength <= Len(NewSegments) * ARC_SEGMENT_LENGTH
        /\ \A n \in 1..Len(NewSegments) :
             /\ Abs(PlaneDist(NewSegments[n].end, last_center.v) - LastRadius) <= Tol
             /\ Abs(PlaneDist(NewSegments[n].start, NewSegments[n].end)
                      - PlaneDist(NewSegments[1].start, NewSegments[1].end)) <= Tol

\* an arc longer than one step whose length is not a whole number of steps
C26_Witness ==
    /\ ArcDone
    /\ Len(NewSegments) > 2
    /\ LastArcLength % ARC_SEGMENT_LENGTH # 0
    /\ before.state.pos # Origin

\* an arc no longer than one step, rasterized into its one segment
C26_WitnessOneStep ==
    /\ ArcDone
    /\ LastArcLength <= ARC_SEGMENT_LENGTH
    /\ Len(NewSegments) = 1

\* the last line is a radius-form arc whose in-plane chord is the diameter
DiameterChord ==
    /\ RadiusAttempt
    /\ LET s == plane_coords(before.state.pos, parser.state.plane)
           e == plane_coords(LastEnd, parser.state.plane)
       IN  (e[1] - s[1]) * (e[1] - s[1]) + (e[2] - s[2]) * (e[2] - s[2])
             = 4 * LastArgs.r.v * LastArgs.r.v

\* the midpoint of the chord of the last arc, at the start's out-of-plane
\* coordinate
ChordMidpoint ==
    LET s == plane_coords(before.state.pos, parser.state.plane)
        e == plane_coords(LastEnd, parser.state.plane)
    IN  with_plane_coords(before.state.pos, parser.state.plane,
                          RDiv(s[1] + e[1], 2), RDiv(s[2] + e[2], 2))

\* the segments of the same arc with the sign of R reversed
SegmentsOfNegatedRadius ==
    arc_to_segments(before.state.pos, LastEnd,
        arc_center_from_radius(before.state.pos, LastEnd, -LastArgs.r.v,
                               parser.state.plane, last_motion = "ArcCW").val,
        last_motion = "ArcCW", parser.state.plane)

\* C27: when the in-plane chord is the diameter, the center of a radius-form
\* arc is the midpoint of the chord whatever the sign of R, so that R and -R
\* give the same segments, of a sweep of magnitude pi; and for two candidate
\* sweeps of equal magnitude select_center picks the first candidate both
\* for the small-arc and for the large-arc request.
C27_DiameterChord ==
    DiameterChord =>
        /\ status = "parsing"
        /\ last_center = Some(ChordMidpoint)
        /\ Abs(LastSweep) = PI
        /\ NewSegments # <<>>
        /\ NewSegments = SegmentsOfNegatedRadius
        /\ \A s1, s2 \in {LastSweep, -LastSweep} :
               select_center(s1, s2, TRUE) /\ select_center(s1, s2, FALSE)

\* away from the origin, a large-arc request over a chord that is a diameter
\* and lies along neither axis
C27_Witness ==
    /\ DiameterChord
    /\ LastArgs.r.v < 0
    /\ before.state.pos # Origin
    /\ ChordMidpoint.x # LastEnd.x
    /\ ChordMidpoint.y # LastEnd.y
    /\ Len(NewSegments) > 1

\* the last line is an arc with an end away from the current position whose
\* solved center is less than 1e-6 from the start in the plane (0 at the
\* model's resolution): the rasterizer returned no segments
EmptyRasterization ==
    /\ ArcAttempt
    /\ last_center.some
    /\ LastRadius = 0

\* C28: when the rasterizer returns no segments because the in-plane radius
\* from the start to the solved center is below 1e-6, the arc line is no
\* error and does nothing: no segment is appended, the position stays where
\* it was instead of going to the commanded end, bounds and move counters are
\* unchanged, and the line's entry of line_segment_ends is recorded.
C28_EmptyRasterization ==
    EmptyRasterization =>
        /\ status = "parsing"
        /\ parser.segments = before.segments
        /\ parser.state.pos = before.state.pos
        /\ parser.state.pos # LastEnd
        /\ parser.bounds = before.bounds
        /\ MoveCounters(parser) = MoveCounters(before)
        /\ parser.line_segment_ends =
             Append(before.line_segment_ends,
                    SameLineEnd(before.line_segment_ends))

\* away from the origin, with initialized bounds, a YZ arc whose only offset
\* is a tiny K
C28_Witness ==
    /\ EmptyRasterization
    /\ parser.state.plane = "YZ"
    /\ LastArgs.k.tiny
    /\ before.state.pos # Origin
    /\ before.bounds.initialized

\* position n of the line is within parentheses: an opening one at or
\* before it has no closing one in between
InComment(line, n) ==
    \E m \in 1..n :
        /\ CharAt(line, m) = "("
        /\ \A q \in (m + 1)..(n - 1) : CharAt(line, q) # ")"

\* the position of the first ';' outside parentheses, or past the end
CommentStart(line) ==
    MinOf({n \in 1..Len(line) : CharAt(line, n) = ";" /\ ~InComment(line, n)}
            \cup {Len(line) + 1})

RECURSIVE KeptFrom(_, _)
\* the characters from position n on that are before the first ';' outside
\* parentheses and not within parentheses
KeptFrom(line, n) ==
    IF n >= CommentStart(line) THEN ""
    ELSE (IF InComment(line, n) THEN "" ELSE CharAt(line, n))
         \o KeptFrom(line, n + 1)

\* the last line as the lexer would see it with just those characters kept
KeptLexed ==
    [line |-> last_line, options |-> parser.options,
     cleaned |-> trim(KeptFrom(last_line, 1)),
     words |-> parse_words(trim(KeptFrom(last_line, 1)), parser.options)]

\* C29: comment stripping removes every character from a '(' through the
\* next ')' and everything from the first ';' outside parentheses on: the
\* words of a line, and with them what the line does, are those of the
\* characters that remain, so that no character within parentheses gives a
\* word, a ';' within parentheses does not end the line and an unclosed '('
\* discards the rest of the line.
C29_CommentsStripped ==
    LineParsed =>
        /\ lex(last_line, parser.options).cleaned = KeptLexed.cleaned
        /\ lex(last_line, parser.options).words = KeptLexed.words
        /\ parser = parse_cleaned([before EXCEPT !.stats.line_count = @ + 1],
                                  KeptLexed, idx).parser

\* a line with a ';' within parentheses and words after the closing one,
\* then a ';' that ends it: the word after the parentheses is executed, the
\* words within them and after the second ';' are not
C29_Witness ==
    /\ LineDone
    /\ last_line = "G1 (a; b) X0.25 ; Y0.5"
    /\ before.state.pos.y # 0
    /\ parser.state.pos.x = 250
    /\ parser.state.pos.y = before.state.pos.y

\* an unclosed '(' discards the rest of the line
C29_WitnessUnclosed ==
    /\ LineDone
    /\ last_line = "X0.5 (open Y0.25"
    /\ parser.state.pos = Vec3(500, 0, 0)

\* position n of the line is whitespace between a letter and its numeric
\* literal: only whitespace lies between it and a letter before it, and the
\* first character after it that is not whitespace is not a letter
InsideWord(line, n) ==
    /\ is_ascii_whitespace(CharAt(line, n))
    /\ \E m \in 1..(n - 1) :
           /\ is_ascii_alphabetic(CharAt(line, m))
           /\ \A q \in (m + 1)..n : is_ascii_whitespace(CharAt(line, q))
    /\ \E m \in (n + 1)..Len(line) :
           /\ ~is_ascii_whitespace(CharAt(line, m))
           /\ ~is_ascii_alphabetic(CharAt(line, m))
           /\ \A q \in n..(m - 1) : is_ascii_whitespace(CharAt(line, q))

RECURSIVE JoinedFrom(_, _)
\* the line from position n on without the whitespace between a letter and
\* its numeric literal
JoinedFrom(line, n) ==
    IF n > Len(line) THEN ""
    ELSE (IF InsideWord(line, n) THEN "" ELSE CharAt(line, n))
         \o JoinedFrom(line, n + 1)

\* the last line, comments stripped and trimmed, has whitespace between a
\* letter and its numeric literal
SpacedWord ==
    /\ LineParsed
    /\ \E n \in 1..Len(lex(last_line, parser.options).cleaned) :
           InsideWord(lex(last_line, parser.options).cleaned, n)

\* C30: whitespace between a letter and its numeric literal is skipped: a
\* line gives the words it gives with that whitespace removed ("X 10" the
\* single word (X, 10) of "X10").
C30_WhitespaceInWord ==
    SpacedWord =>
        lex(last_line, parser.options).words =
            parse_words(JoinedFrom(lex(last_line, parser.options).cleaned, 1),
                        parser.options)

\* the run of characters after the letter at position n: up to the next
\* ASCII whitespace or letter
RunAt(line, n) ==
    SubSeq(line, n + 1,
           MinOf({m \in (n + 1)..Len(line) :
                     \/ is_ascii_whitespace(CharAt(line, m))
                     \/ is_ascii_alphabetic(CharAt(line, m))}
                   \cup {Len(line) + 1}) - 1)

\* the string is a real number as parse::<f64> takes it from such a run: an
\* optional sign, then digits with at most one '.', at least one digit
ValidNumber(s) ==
    LET body == IF Len(s) > 0 /\ CharAt(s, 1) \in {"+", "-"}
                THEN SubSeq(s, 2, Len(s)) ELSE s
    IN  /\ \A n \in 1..Len(body) : CharAt(body, n) \in DigitSet \cup {"."}
        /\ Cardinality({n \in 1..Len(body) : CharAt(body, n) = "."}) <= 1
        /\ \E n \in 1..Len(body) : CharAt(body, n) \in DigitSet

\* the letters of a line whose run is not empty and is no valid number
BadRuns(cleaned) ==
    {n \in Letters(cleaned) :
        RunAt(cleaned, n) # "" /\ ~ValidNumber(RunAt(cleaned, n))}

\* the letters of a line whose run, trimmed, is not empty and is no valid
\* number
BadLiterals(cleaned) ==
    {n \in Letters(cleaned) :
        trim(RunAt(cleaned, n)) # "" /\ ~ValidNumber(trim(RunAt(cleaned, n)))}

\* C31 as stated: a letter followed by a non-empty run of characters that
\* are neither ASCII whitespace nor letters and that is no valid real number
\* fails the line, for every letter and under every ParseOptions (here: for
\* the first such letter, when no letter before it has already failed the
\* line).
C31_BadRunFails ==
    LET cleaned == lex(last_line, parser.options).cleaned
    IN  (LineParsed /\ BadRuns(cleaned) # {}) => status = "failed"

\* C31, amended: a letter followed by a run that, trimmed of whitespace, is
\* not empty and is no valid real number fails the line with the error of
\* the float parser, annotated with the line number, for every letter and
\* under every ParseOptions; the error is raised for no other reason. A run
\* that is empty once trimmed (so also one made of U+00A0 only) is a missing
\* value, to which the tolerances apply.
C31_BadLiteralFails ==
    LET cleaned == lex(last_line, parser.options).cleaned
        first == MinOf(BadLiterals(cleaned) \cup Untolerated
                         \cup {Len(cleaned) + 1})
    IN  LineParsed =>
            /\ first \in BadLiterals(cleaned) =>
                 FailedWith("InvalidFloat") /\ result.err.context = idx
            /\ FailedWith("InvalidFloat") => first \in BadLiterals(cleaned)

\* a lone '.' after E fails the line although E is in the tolerated-missing
\* set and unknown words are ignored
C31_Witness ==
    /\ FailedWith("InvalidFloat")
    /\ last_line = "E."
    /\ "E" \in parser.options.ignore_missing_value
    /\ parser.options.ignore_unknown_words
    /\ idx = 2

\* a run of U+00A0 after a tolerated E is dropped with its letter
C31_WitnessBlankRun ==
    /\ LineDone
    /\ last_line = "E" \o NBSP \o "X0.5"
    /\ parser.state.pos.x = 500

\* parse_line returned an error on the last line
LineFailed == LineParsed /\ status = "failed"

\* the errors of the lexer
LexerErrors == {"MissingValue", "InvalidFloat"}

\* the parser but for its line count and the modal fields of its state
Unwound(p) ==
    [p EXCEPT !.stats.line_count = 0,
              !.state.motion_mode = "Rapid", !.state.plane = "XY",
              !.state.units_scale = Scale, !.state.distance_mode = "Absolute"]

\* C32: whenever parse_line returns an error, of the lexer or of the arc
\* solver, the segment list, the bounds, the position, the rapid, feed and
\* arc counters and line_segment_ends are exactly as they were before the
\* line; only stats.line_count, which is one more, and, for an error of the
\* arc solver, the modal fields the G words of the line set may have changed.
C32_ErrorLeavesOutput ==
    LineFailed =>
        /\ parser.segments = before.segments
        /\ parser.bounds = before.bounds
        /\ parser.state.pos = before.state.pos
        /\ MoveCounters(parser) = MoveCounters(before)
        /\ parser.line_segment_ends = before.line_segment_ends
        /\ parser.stats.line_count = before.stats.line_count + 1
        /\ Unwound(parser) = Unwound(before)
        /\ result.err.kind \in LexerErrors => parser.state = before.state
        /\ ~HasLetter(LastWords, {"G"}) =>
               parser.state = before.state

\* the arc solver failed on a line whose G words had changed the motion mode
\* and the plane, with segments already emitted and the position away from
\* the origin
C32_Witness ==
    /\ LineFailed
    /\ result.err.kind \notin LexerErrors
    /\ parser.state.motion_mode # before.state.motion_mode
    /\ before.segments # <<>>
    /\ before.state.pos # Origin
    /\ move_end(parser, LastArgs.x, LastArgs.y, LastArgs.z) # parser.state.pos

\* the lexer failed on a line after one that emitted segments
C32_WitnessLexer ==
    /\ LineFailed
    /\ result.err.kind \in LexerErrors
    /\ before.segments # <<>>

\* the number of segments of a kind in a segment list
CountKind(segments, kind) ==
    Cardinality({n \in 1..Len(segments) : segments[n].kind = kind})

\* C33: in every Toolpath a parse returns, rapid_moves is the number of
\* segments of kind Rapid, arc_moves is at most feed_moves, feed_moves minus
\* arc_moves is the number of Feed segments that linear moves emitted,
\* segment_count is the length of the segment list and line_count is the
\* length of line_segment_ends.
C33_ToolpathCounters ==
    (status = "done" /\ result.ok) =>
        LET toolpath == result.val
            stats == toolpath.stats
        IN  /\ stats.rapid_moves = CountKind(toolpath.segments, "Rapid")
            /\ stats.arc_moves <= stats.feed_moves
            /\ stats.feed_moves - stats.arc_moves = linear_feeds
            /\ linear_feeds <= CountKind(toolpath.segments, "Feed")
            /\ stats.segment_count = Len(toolpath.segments)
            /\ stats.line_count = Len(toolpath.line_segment_ends)

\* a Toolpath of a rapid move, a linear feed move and an arc of several
\* segments
C33_Witness ==
    /\ status = "done"
    /\ result.ok
    /\ result.val.stats.rapid_moves = 1
    /\ result.val.stats.arc_moves = 1
    /\ result.val.stats.feed_moves = 2
    /\ Len(result.val.segments) > 3

\* ------------------------------------------------------------------------
\* Properties of the viewer
\* ------------------------------------------------------------------------

\* the first and the last selected line of the file panel, counted from 0:
\* the lines between the anchor and the selected line in visual mode, the
\* selected line alone otherwise
FirstSelected ==
    IF app.file_panel.visual /\ app.file_panel.anchor < app.file_panel.selected
    THEN app.file_panel.anchor ELSE app.file_panel.selected

LastSelected ==
    IF app.file_panel.visual /\ app.file_panel.anchor > app.file_panel.selected
    THEN app.file_panel.anchor ELSE app.file_panel.selected

\* the end of the segments of line n, counted from 0 (line_segment_ends[n])
EndOfLine(n) == app.toolpath.line_segment_ends[n + 1]

\* the segments of the selected lines, as a range
SelectedSegments ==
    <<IF FirstSelected = 0 THEN 0 ELSE EndOfLine(FirstSelected - 1),
      EndOfLine(LastSelected)>>

\* C34: with the playback inactive and the lines a..b of the file selected
\* (counted from 0, a <= b, both within the file), visible_segment_range
\* returns (0 if a = 0 else line_segment_ends[a-1], line_segment_ends[b]):
\* the segments the lines a through b emitted.
C34_SelectionRange ==
    (/\ ~app.playback.active
     /\ FirstSelected <= LastSelected
     /\ LastSelected < app.file_lines) =>
        visible_segment_range(app) = SelectedSegments

\* the last two lines of a file of three are selected in visual mode, with
\* the playback run to its end
C34_Witness ==
    /\ ~app.playback.active
    /\ app.playback.position = usize_f64(app.toolpath.segments)
    /\ app.file_lines = 3
    /\ app.file_panel.visual
    /\ FirstSelected = 1
    /\ LastSelected = 2
    /\ visible_segment_range(app) = <<1, 3>>

\* one line between two others is selected, which emitted no segment
C34_WitnessEmptyLine ==
    /\ ~app.playback.active
    /\ FirstSelected = 1
    /\ LastSelected = 1
    /\ visible_segment_range(app) = <<1, 1>>

\* the number of segments of the selected lines
SelectedLen ==
    IF app.file_lines = 0 THEN 0
    ELSE SelectedSegments[2] - SelectedSegments[1]

\* n is min(floor(position), len), for a position in thousandths
IsFloorMin(n, position, len) ==
    /\ ~position.nan
    /\ \/ n = len /\ position.v >= len * Scale
       \/ n < len /\ n * Scale <= position.v /\ position.v < (n + 1) * Scale

\* the range visible_segment_range returns lies within the segment list
RangeWithinSegments ==
    LET range == visible_segment_range(app)
    IN  /\ 0 <= range[1]
        /\ range[1] <= range[2]
        /\ range[2] <= app.toolpath.segments

\* C35: in every state of the App that actions and ticks reach,
\* visible_segment_range returns (start, end) with 0 <= start <= end <= the
\* number of segments, and while the playback is active the visible length
\* end - start is min(floor(playback position), length of the selected
\* range).
C35_VisibleRange ==
    LET range == visible_segment_range(app)
    IN  /\ RangeWithinSegments
        /\ app.playback.active =>
               IsFloorMin(range[2] - range[1], app.playback.position,
                          SelectedLen)

\* C35 where the position of the playback is a number
VisibleRangeOfNumbers ==
    LET range == visible_segment_range(app)
    IN  /\ RangeWithinSegments
        /\ (app.playback.active /\ ~app.playback.position.nan) =>
               IsFloorMin(range[2] - range[1], app.playback.position,
                          SelectedLen)

\* with the playback at 1.5 of the two segments of the last two lines, one
\* segment is visible
VisibleRangeMidway ==
    /\ app.playback.active
    /\ app.playback.position = Num(1500)
    /\ SelectedSegments = <<1, 3>>
    /\ visible_segment_range(app) = <<1, 2>>

\* the total the playback runs to
Total == usize_f64(app.toolpath.segments)

\* C36: after any sequence of toggle and tick on a PlaybackState with a
\* fixed total, playing implies active and 0 <= position <= total; a toggle
\* while playing (a pause) keeps position and active, and a toggle that
\* starts or resumes sets the position to 0 only when position >= total,
\* and keeps it otherwise.
C36_PlaybackInvariant ==
    /\ [](/\ app.playback.playing => app.playback.active
          /\ ~app.playback.position.nan
          /\ 0 <= app.playback.position.v
          /\ app.playback.position.v <= Total.v)
    /\ [][last_op'.op = "toggle" =>
            /\ app.playback.playing =>
                   /\ ~app'.playback.playing
                   /\ app'.playback.position = app.playback.position
                   /\ app'.playback.active = app.playback.active
            /\ ~app.playback.playing =>
                   /\ app'.playback.playing
                   /\ app'.playback.active
                   /\ app'.playback.position =
                          IF ~app.playback.position.nan
                             /\ app.playback.position.v >= Total.v
                          THEN Num(0) ELSE app.playback.position]_vars

\* the invariant of C36 for a playback whose speed is a number
PlaybackInvariantOfNumbers ==
    ~app.playback.speed.nan =>
        /\ app.playback.playing => app.playback.active
        /\ ~app.playback.position.nan
        /\ 0 <= app.playback.position.v
        /\ app.playback.position.v <= Total.v

\* the effect C36 gives for toggle, whatever the speed; playing implies
\* active whatever the speed
ToggleEffect ==
    /\ [](app.playback.playing => app.playback.active)
    /\ [][last_op'.op = "toggle" =>
            /\ app.playback.playing =>
                   /\ ~app'.playback.playing
                   /\ app'.playback.position = app.playback.position
                   /\ app'.playback.active = app.playback.active
            /\ ~app.playback.playing =>
                   /\ app'.playback.playing
                   /\ app'.playback.active
                   /\ app'.playback.position =
                          IF ~app.playback.position.nan
                             /\ app.playback.position.v >= Total.v
                          THEN Num(0) ELSE app.playback.position]_vars

\* a playback that ran to its total is started again from 0
ToggleRewinds ==
    /\ last_op.op = "toggle"
    /\ app.playback.playing
    /\ app.playback.position = Num(0)
    /\ Total.v > 0

\* the playback has run to its end and the segments of the selected lines
\* are all visible
PlaybackOver ==
    /\ app.playback.position = Total
    /\ ~app.playback.playing
    /\ ~app.playback.active
    /\ visible_segment_range(app)[2] - visible_segment_range(app)[1]
           = SelectedLen

\* C37: once the playback is playing, if it is not toggled again and ticks
\* keep arriving with positive elapsed time, the speed being positive by
\* configuration, the playback eventually reaches position = total, where
\* playing and active are both false and the whole selected range is visible
\* again.
C37_PlaybackCompletes == app.playback.playing ~> PlaybackOver

\* C37 for a playback whose speed is a number
PlaybackOfNumbersCompletes ==
    (app.playback.playing /\ ~app.playback.speed.nan) ~> PlaybackOver

\* a playback over three segments ended in a pass of the loop
PlaybackEnded ==
    /\ PlaybackOver
    /\ last_op.op = "run_loop"
    /\ app.toolpath.segments = 3
    /\ app.playback.position = Num(3000)

\* the selected line is in the window of the file panel
InWindow ==
    /\ app.file_panel.scroll <= app.file_panel.selected
    /\ app.file_panel.selected
           < app.file_panel.scroll + app.file_panel.view_height

\* C38: after any sequence of move_selection, page_selection, toggle_visual
\* and ensure_visible on a file of total > 0 lines, selected and anchor are
\* below total, the first and the last selected line satisfy
\* lo <= hi < total and are what selection_range returns, and after
\* ensure_visible with view_height > 0 the selected line lies in the window
\* scroll <= selected < scroll + view_height.
C38_SelectionInFile ==
    app.file_lines > 0 =>
        /\ app.file_panel.selected < app.file_lines
        /\ app.file_panel.anchor < app.file_lines
        /\ 0 <= FirstSelected
        /\ FirstSelected <= LastSelected
        /\ LastSelected < app.file_lines
        /\ selection_range(app.file_panel, app.file_lines)
               = <<FirstSelected, LastSelected>>
        /\ app.file_panel.view_height > 0 => InWindow

\* ensure_visible ran on a panel two lines high that had scrolled down to
\* the fourth line of five
C38_Witness ==
    /\ last_op.op = "ensure_visible"
    /\ app.file_lines = 5
    /\ app.file_panel.view_height = 2
    /\ app.file_panel.selected = 3
    /\ app.file_panel.scroll = 2
    /\ app.file_panel.visual
    /\ app.file_panel.anchor = 4

\* the actions that act on the selection of the file panel
SelectionActions == {"LineUp", "LineDown", "PageUp", "PageDown", "ToggleVisual"}

\* C39: while the help overlay is shown, apply_action leaves the view, the
\* playback and the file panel unchanged for every action, and only
\* ToggleHelp and Quit change anything: they set show_help to false. While
\* the overlay is hidden, LineUp, LineDown, PageUp, PageDown and
\* ToggleVisual change the file panel only when its focus is File.
C39_HelpOverlayFrame ==
    [][last_op'.op = "apply_action" =>
          /\ app.show_help =>
                /\ app'.view = app.view
                /\ app'.playback = app.playback
                /\ app'.file_panel = app.file_panel
                /\ app' = [app EXCEPT !.show_help = app'.show_help]
                /\ last_op'.action \in {"ToggleHelp", "Quit"} =>
                       ~app'.show_help
                /\ last_op'.action \notin {"ToggleHelp", "Quit"} =>
                       app' = app
          /\ (/\ ~app.show_help
              /\ last_op'.action \in SelectionActions
              /\ app.file_panel.focus # "File") =>
                 app'.file_panel = app.file_panel]_vars

\* Quit closed the overlay over a playback that was under way and a view
\* turned away from the initial one
C39_Witness ==
    /\ last_op = Op("apply_action", "Quit", TRUE)
    /\ ~app.show_help
    /\ app.playback.playing
    /\ app.playback.position.v > 0
    /\ app.view # app.initial_view
    /\ app.file_panel.focus = "File"

\* LineUp found the overlay hidden and the focus on the viewport
C39_WitnessViewport ==
    /\ last_op = Op("apply_action", "LineUp", FALSE)
    /\ app.file_panel.focus = "Viewport"
    /\ app.file_panel.view_height > 0

\* C40: in the event loop, a Quit received while the help overlay is shown
\* only closes the overlay (show_help becomes false) and the loop keeps
\* running; the loop is left on Quit only when the overlay is hidden.
C40_QuitUnderHelp ==
    /\ (/\ last_op.op = "run_loop"
        /\ last_op.action = "Quit"
        /\ last_op.help) => (running /\ ~app.show_help)
    /\ ~running => (last_op.action = "Quit" /\ ~last_op.help)

\* the loop is left on Quit and on nothing else
LoopLeftOnQuit ==
    /\ ~running => (last_op.op = "run_loop" /\ last_op.action = "Quit")
    /\ (last_op.op = "run_loop" /\ last_op.action = "Quit") => ~running

\* the loop was left with the overlay shown
LoopLeftUnderHelp ==
    /\ ~running
    /\ last_op = Op("run_loop", "Quit", TRUE)
    /\ app.show_help

====
